---------------------------- MODULE Spec2Model ----------------------------
(***************************************************************************)
(* A model of the Scaler of terrpan/scaleset (internal/scaler/scaler.go):  *)
(* the idle/busy runner inventory, the listener callbacks that mutate it,  *)
(* and the calls it makes on the scaleset client and on the Engine.        *)
(*                                                                         *)
(* Every critical section of the Scaler (s.mu.Lock .. s.mu.Unlock) is one  *)
(* atomic step.  Every call that leaves the Scaler (the JIT-config         *)
(* request, Engine.StartRunner, Engine.DestroyRunner, Engine.Shutdown) is  *)
(* a step of its own, so the other goroutines interleave around it.        *)
(*                                                                         *)
(* Runner names are "runner-" + uuid.NewString()[:8]; the model draws them *)
(* from a counter (a name is never generated twice).  The Engine is the    *)
(* engine.Engine interface: each call returns success or an error, chosen  *)
(* nondeterministically; the id it returns for a name is EngineId(name),   *)
(* distinct for distinct names.                                            *)
(***************************************************************************)
EXTENDS Integers, FiniteSets, Sequences, TLC

\* ------------------------------------------------------------------ bounds

\* Names the model lets uuid.NewString produce before it stops.
MaxNames == 2
\* The <<MinRunners, MaxRunners>> a Scaler of the model is constructed with.
ScaleParams == {<<0, 1>>, <<1, 1>>, <<0, 2>>, <<1, 2>>, <<2, 2>>}
\* Largest desired count the listener reports.
MaxDesired == 2

\* Goroutines that can be inside HandleDesiredRunnerCount at one time.
DThreads == {1, 2}
\* Goroutines that can be inside HandleJobCompleted at one time.
CThreads == {1, 2}
Names == 1..MaxNames
\* The id Engine.StartRunner returns for a name: opaque, and no two alike.
EngineId(name) == MaxNames + name
Ids == {EngineId(n) : n \in Names}
\* The id "" (removeRunner's result for a name it does not find).
NoId == 0

VARIABLES
    minRunners,     \* Scaler.minRunners
    maxRunners,     \* Scaler.maxRunners
    idle,           \* Scaler.idle: runner name -> engine id
    busy,           \* Scaler.busy: runner name -> engine id
    nextName,       \* names generated so far
    started,        \* Engine: number of StartRunner calls received
    destroyCalls,   \* Engine: id -> number of DestroyRunner calls received
    hd,             \* per goroutine: a HandleDesiredRunnerCount invocation
    jc,             \* per goroutine: a HandleJobCompleted invocation
    sd,             \* the Scaler.Shutdown invocation
    js,             \* the HandleJobStarted invocation that has just returned
    life,           \* upstream: per name, the lifecycle events it has sent
    res,            \* backend: the runners' resources that are outstanding
    kind,           \* which Engine cfg.NewEngine has built
    inventory,      \* Engine.containers (docker) / Engine.instances (gcp)
    backend,        \* ids of the containers / VMs that exist
    issued,         \* names the caller has passed to StartRunner
    live,           \* name -> id: StartRunner returned id, no destroy since
    destroyed,      \* ids for which a DestroyRunner has returned nil
    eop,            \* the StartRunner / DestroyRunner call just returned
    esh,            \* the Engine.Shutdown invocation
    boot,           \* the process: where run is, its deferred calls
    conf,           \* the Config: as loaded, and what Validate returned
    lk,             \* the mutexes' holders, each goroutine's statements to come
    past            \* the names that have left idle, and those that have left busy

vars == <<minRunners, maxRunners, idle, busy, nextName, started,
          destroyCalls, hd, jc, sd, js, life, res,
          kind, inventory, backend, issued, live, destroyed, eop, esh, boot,
          conf, lk, past>>

\* The Scaler, with its view of the Engine and of the upstream.
scalerModel == <<minRunners, maxRunners, idle, busy, nextName, started,
                 destroyCalls, hd, jc, sd, js, life, res>>

\* An Engine implementation and its backend.
engineImpl == <<kind, inventory, backend, issued, live, destroyed, eop, esh>>

\* What the Scaler's operations leave alone.
notScaler == <<engineImpl, boot, conf, lk, past>>

\* The same without the record of the names' past.
notScalerPast == <<engineImpl, boot, conf, lk>>

\* What the Engine's operations leave alone.
notEngine == <<scalerModel, boot, conf, lk, past>>

\* What run itself leaves alone.
notRun == <<scalerModel, engineImpl, conf, lk, past>>

\* What loading and validating the configuration leaves alone.
notConfig == <<scalerModel, engineImpl, boot, lk, past>>

\* What a statement of the locking discipline leaves alone (the Engine is
\* built by NewEngine).
notLocks == <<scalerModel, boot, conf, past>>

config == <<minRunners, maxRunners>>

engineVars == <<started, destroyCalls>>

\* ----------------------------------------------------------------- helpers

EmptyMap == [x \in {} |-> NoId]

MapPut(m, k, v) == [x \in (DOMAIN m) \cup {k} |-> IF x = k THEN v ELSE m[x]]

MapDel(m, k) == [x \in (DOMAIN m) \ {k} |-> m[x]]

Min(a, b) == IF a < b THEN a ELSE b

Max(a, b) == IF a > b THEN a ELSE b

\* len(s.idle) + len(s.busy)
runnerCount == Cardinality(DOMAIN idle) + Cardinality(DOMAIN busy)

\* No invocation other than goroutine t's is between its first and last step.
OthersQuiescent(t) ==
    /\ \A u \in DThreads \ {t} : hd[u].pc = "ready"
    /\ \A c \in CThreads : jc[c].pc = "ready"
    /\ sd.pc = "ready"

\* No invocation is between its first and last step.
Quiescent ==
    /\ \A t \in DThreads : hd[t].pc = "ready"
    /\ \A c \in CThreads : jc[c].pc = "ready"
    /\ sd.pc = "ready"

\* Goroutines are anonymous: a new invocation takes the first free one.
FirstFree(t, free) == t \in free /\ \A u \in free : t <= u

(***************************************************************************)
(* A HandleDesiredRunnerCount invocation.  pc, left, name, jit, id and err *)
(* are the goroutine's position and live locals (jit: the outcome of the   *)
(* last JIT-config request), ret the count it returned, kept until another *)
(* step is taken.  The other fields record the invocation for as long as   *)
(* it is observed (obs): it was entered while no other operation was in    *)
(* flight and no other operation has taken a step since.  count and cur    *)
(* are its argument and the currentCount it read, tries the startRunner    *)
(* calls it made, starts the Engine.StartRunner calls it issued, new the   *)
(* names it inserted.                                                      *)
(***************************************************************************)
HdBlank ==
    [pc |-> "ready", left |-> 0, name |-> 0, jit |-> "none", id |-> NoId,
     err |-> "nil", obs |-> FALSE, count |-> 0, cur |-> 0, tries |-> 0,
     starts |-> 0, new |-> {}, ret |-> 0]

Unobserved(r) ==
    [r EXCEPT !.obs = FALSE, !.count = 0, !.cur = 0, !.tries = 0,
              !.starts = 0, !.new = {}]

Forget(r) ==
    IF r.pc = "ready" THEN HdBlank ELSE [Unobserved(r) EXCEPT !.ret = 0]

\* hd after a step of goroutine a: a's record stays as long as it is observed,
\* every other invocation stops being observed.
Observe(h, a) ==
    [u \in DThreads |->
        IF u = a
        THEN IF h[u].obs THEN h[u] ELSE Unobserved(h[u])
        ELSE Forget(h[u])]

\* hd after a step of another operation: no invocation stays observed.
ForgetAll(h) == [u \in DThreads |-> Forget(h[u])]

(***************************************************************************)
(* A HandleJobCompleted invocation: pc, name and id are the goroutine's    *)
(* position and locals.  name, last and engErr describe the invocation     *)
(* that has just returned, until another step is taken: last is what it    *)
(* did and                                                                 *)
(* returned ("unknown": nil, the name was in neither map; "destroyed": nil *)
(* after DestroyRunner; "failed": the error of DestroyRunner), engErr      *)
(* whether Engine.DestroyRunner returned an error to it.                   *)
(***************************************************************************)
JcBlank ==
    [pc |-> "ready", name |-> 0, id |-> NoId, from |-> "none",
     last |-> "none", engErr |-> FALSE]

JcObserve(j, a) ==
    [c \in CThreads |->
        IF c = a \/ j[c].pc # "ready" THEN j[c] ELSE JcBlank]

\* jc after a step of another operation.
JcForgetAll(j) ==
    [c \in CThreads |-> IF j[c].pc # "ready" THEN j[c] ELSE JcBlank]

(***************************************************************************)
(* The Scaler.Shutdown invocation: pc is its position, calls the           *)
(* Engine.Shutdown calls it has made, engErr whether Engine.Shutdown       *)
(* returned an error (which is logged), mixed whether idle and busy were   *)
(* both non-empty when it cleared them, returned that it has returned (it  *)
(* has no result).  Once it has returned the record is kept until another  *)
(* step is taken.                                                          *)
(***************************************************************************)
SdBlank ==
    [pc |-> "ready", calls |-> 0, engErr |-> FALSE, mixed |-> FALSE,
     returned |-> FALSE]

SdForget(r) == IF r.pc = "ready" THEN SdBlank ELSE r

(***************************************************************************)
(* The HandleJobStarted invocation that returned in the last step: name    *)
(* its runner name, found whether the name was in idle, ret the error it   *)
(* returned.  Any other step forgets it.                                   *)
(***************************************************************************)
JsBlank == [name |-> 0, found |-> FALSE, ret |-> "none"]

(***************************************************************************)
(* The Engines (container daemon: docker; cloud VM: gcp).  An error text   *)
(* is the sequence of its characters.                                      *)
(***************************************************************************)

\* The three patterns of contains404Pattern.
PatternError404 ==
    <<"E", "r", "r", "o", "r", " ", "4", "0", "4">>

PatternCodeNotFound ==
    <<"c", "o", "d", "e", " ", "=", " ", "N", "o", "t", "F", "o", "u", "n",
      "d">>

PatternNotFoundLower ==
    <<"n", "o", "t", "F", "o", "u", "n", "d">>

\* Error texts the Compute API client may return.
TextError404 ==
    <<"a", "p", "i", ":", " ", "E", "r", "r", "o", "r", " ", "4", "0", "4",
      ":", " ", "g", "o", "n", "e">>

TextCodeNotFound ==
    <<"r", "p", "c", ":", " ", "c", "o", "d", "e", " ", "=", " ", "N", "o",
      "t", "F", "o", "u", "n", "d">>

TextReasonNotFound ==
    <<"E", "r", "r", "o", "r", " ", "4", "0", "0", ":", " ", "n", "o", "t",
      "F", "o", "u", "n", "d">>

TextDenied ==
    <<"E", "r", "r", "o", "r", " ", "4", "0", "3", ":", " ", "d", "e", "n",
      "i", "e", "d">>

TextBareNotFound ==
    <<"N", "o", "t", "F", "o", "u", "n", "d">>

TextShort ==
    <<"E", "r", "r", "o", "r", " ", "4", "0">>

ErrorTexts ==
    {TextError404, TextCodeNotFound, TextReasonNotFound, TextDenied,
     TextBareNotFound, TextShort}

\* What the API answers for an instance that does not exist.
GoneTexts == {TextError404, TextCodeNotFound}

\* No error.
NoText == <<>>

\* searchString: for i := 0; i <= len(s)-len(substr); i++ { if s[i:i+len(substr)]
\* == substr { return true } }; return false.  from(i) is the loop from i on.
RECURSIVE searchFrom(_, _, _)
searchFrom(s, substr, i) ==
    IF i > Len(s) - Len(substr) THEN FALSE
    ELSE IF SubSeq(s, i + 1, i + Len(substr)) = substr THEN TRUE
    ELSE searchFrom(s, substr, i + 1)

searchString(s, substr) == searchFrom(s, substr, 0)

\* containsString: len(substr) <= len(s) && searchString(s, substr)
containsString(s, substr) ==
    Len(substr) <= Len(s) /\ searchString(s, substr)

\* contains404Pattern: any of the three patterns is a substring.
contains404Pattern(s) ==
    \/ containsString(s, PatternError404)
    \/ containsString(s, PatternCodeNotFound)
    \/ containsString(s, PatternNotFoundLower)

\* An isNotFound that knows the googleapi format only.
isNotFound_Error404Only(err) ==
    IF err = NoText THEN FALSE ELSE containsString(err, PatternError404)

\* isNotFound(err): err != nil and its text has one of the patterns.
isNotFound(err) ==
    IF err = NoText THEN FALSE ELSE contains404Pattern(err)

\* nil, and the error of a failed call: which call failed, on which id.
Nil == [of |-> "nil", id |-> NoId]

Failure(call, id) == [of |-> call, id |-> id]

\* No StartRunner / DestroyRunner call has just returned (the record of one
\* is kept until the next step of the Engine).
EopBlank ==
    [op |-> "none", name |-> 0, id |-> NoId, ret |-> "nil", stage |-> "none",
     text |-> NoText, created |-> FALSE, cleanup |-> FALSE,
     before |-> EmptyMap, goneBefore |-> FALSE, absent |-> FALSE]

\* Engine.Shutdown has not been called.
\* deletes counts the Instances.Delete calls it issued, after lists what it
\* did once the loop was over, closeErrs the errors its Close calls returned,
\* missing the names whose container the daemon no longer had when Shutdown
\* came to remove it.
EshBlank ==
    [pc |-> "ready", snapshot |-> EmptyMap, todo |-> {}, attempted |-> {},
     failures |-> <<>>, firstErr |-> Nil, ret |-> Nil, deletes |-> 0,
     after |-> <<>>, closeErrs |-> <<>>, missing |-> {}, failedIds |-> {}]

\* failedIds: the tracked ids whose last DestroyRunner call returned an error.
FailedIds(id, ret) ==
    IF ret = "nil" THEN esh.failedIds \ {id}
    ELSE IF \E n \in DOMAIN inventory : inventory[n] = id
    THEN esh.failedIds \cup {id}
    ELSE esh.failedIds

\* run has been called and has done nothing yet.
BootBlank ==
    [pc |-> "config", cancelled |-> FALSE, defers |-> <<>>, log |-> <<>>,
     loop |-> "none", ret |-> "none", done |-> {}, failed |-> "none"]

\* Goroutines that call into the Scaler (listener, metrics reader, main).
Goroutines == {1, 2}

\* &Config{}: every string empty, every number 0, every flag false.  A
\* string field is modelled by whether it is non-empty, the labels by whether
\* one of them is blank, github.url by whether url.ParseRequestURI accepts
\* it, the two private key fields by whether one of them is set.
ZeroConfig ==
    [urlOk |-> FALSE, Token |-> FALSE, ClientID |-> FALSE,
     InstallationID |-> FALSE, PrivateKey |-> FALSE, Name |-> FALSE,
     blankLabel |-> FALSE, MinRunners |-> 0, MaxRunners |-> 0,
     Docker |-> FALSE, GCP |-> FALSE, AWS |-> FALSE, Azure |-> FALSE,
     Project |-> FALSE, Zone |-> FALSE, Image |-> FALSE]

\* -------------------------------------------------------------------- Init

Init ==
    /\ \E p \in ScaleParams : minRunners = p[1] /\ maxRunners = p[2]
    /\ idle = EmptyMap
    /\ busy = EmptyMap
    /\ nextName = 0
    /\ started = 0
    /\ destroyCalls = [i \in Ids |-> 0]
    /\ hd = [t \in DThreads |-> HdBlank]
    /\ jc = [c \in CThreads |-> JcBlank]
    /\ sd = SdBlank
    /\ js = JsBlank
    /\ life = [n \in Names |-> "none"]
    /\ res = [alive |-> {}, shut |-> FALSE]
    /\ kind = "none"
    /\ inventory = EmptyMap
    /\ backend = {}
    /\ issued = 0
    /\ live = EmptyMap
    /\ destroyed = {}
    /\ eop = EopBlank
    /\ esh = EshBlank
    /\ boot = BootBlank
    /\ conf = [pc |-> "start", cfg |-> ZeroConfig, err |-> "none"]
    /\ lk = [mu |-> {}, emu |-> {}, prog |-> [g \in Goroutines |-> <<>>]]
    /\ past = [leftIdle |-> {}, leftBusy |-> {}]

\* ------------------------------------------- HandleDesiredRunnerCount

\* A target without the cap.
TargetCount_NoCap(count) == minRunners + count

\* targetCount := min(s.maxRunners, s.minRunners+count)
TargetCount(count) == Min(maxRunners, minRunners + count)

\* A switch that scales whenever the target differs from the current count.
ScaleAction_NoDown(targetCount, currentCount) ==
    IF targetCount = currentCount THEN "none" ELSE "up"

\* The switch on targetCount and currentCount.
ScaleAction(targetCount, currentCount) ==
    IF targetCount = currentCount THEN "none"
    ELSE IF targetCount > currentCount THEN "up"
    ELSE "down"

\* A loop that goes on to the next iteration after a failed startRunner.
LoopNext_Continue(left, failed) ==
    IF left > 1 THEN "jit" ELSE "ret"

\* Where the loop "for range delta" goes after one startRunner: out with the
\* error if it failed, to the next iteration if one is left, else out.
LoopNext(left, failed) ==
    IF failed THEN "ret"
    ELSE IF left > 1 THEN "jit" ELSE "ret"

\* A startRunner that calls the Engine whatever the JIT-config request said.
JitNext_IgnoreError(left, ok) == "engine"

\* Where startRunner goes after the JIT-config request: on an error it
\* returns it (and the loop ends), else it calls the Engine.
JitNext(left, ok) ==
    IF ok THEN "engine" ELSE LoopNext(left, TRUE)

\* Entry: read the inventory size under the mutex, compute the target, and
\* either return currentCount at once (none, down) or enter the loop (up).
HandleDesiredRunnerCount(t, count) ==
    /\ FirstFree(t, {u \in DThreads : hd[u].pc = "ready"})
    /\ LET currentCount == runnerCount
           targetCount == TargetCount(count)
           call == [HdBlank EXCEPT !.obs = OthersQuiescent(t),
                                   !.count = count,
                                   !.cur = currentCount,
                                   !.ret = currentCount]
       IN  IF ScaleAction(targetCount, currentCount) = "up"
           THEN hd' = Observe([hd EXCEPT ![t] =
                          [call EXCEPT !.pc = "jit", !.ret = 0,
                                       !.left = targetCount - currentCount]],
                          t)
           ELSE hd' = Observe([hd EXCEPT ![t] = call], t)
    /\ jc' = JcForgetAll(jc)
    /\ sd' = SdForget(sd)
    /\ js' = JsBlank
    /\ UNCHANGED <<config, idle, busy, nextName, engineVars>>

\* startRunner up to the mutex: generate the name, request its JIT config
\* and, unless that failed, call s.engine.StartRunner(ctx, name, jit).  Both
\* calls leave the Scaler; neither reads or writes its inventory.
startRunner_Call(t) ==
    /\ hd[t].pc = "jit"
    /\ nextName < MaxNames
    /\ nextName' = nextName + 1
    /\ LET name == nextName + 1
       IN  \E jitOk \in BOOLEAN, startOk \in BOOLEAN :
              LET r == JitNext(hd[t].left, jitOk)
                  j == IF jitOk THEN "ok" ELSE "failed"
              IN  IF r # "engine"
                  THEN /\ started' = started
                       /\ hd' = Observe([hd EXCEPT ![t].name = name,
                                                   ![t].jit = j,
                                                   ![t].id = NoId,
                                                   ![t].tries = @ + 1,
                                                   ![t].err = "jit",
                                                   ![t].left = @ - 1,
                                                   ![t].pc = r], t)
                  ELSE IF startOk
                  THEN /\ started' = started + 1
                       /\ hd' = Observe([hd EXCEPT ![t].name = name,
                                                   ![t].jit = j,
                                                   ![t].id = EngineId(name),
                                                   ![t].tries = @ + 1,
                                                   ![t].starts = @ + 1,
                                                   ![t].err = "nil",
                                                   ![t].pc = "insert"], t)
                  ELSE /\ started' = started + 1
                       /\ hd' = Observe([hd EXCEPT ![t].name = name,
                                                   ![t].jit = j,
                                                   ![t].id = NoId,
                                                   ![t].tries = @ + 1,
                                                   ![t].starts = @ + 1,
                                                   ![t].err = "engine",
                                                   ![t].left = @ - 1,
                                                   ![t].pc = LoopNext(hd[t].left,
                                                                      TRUE)], t)
    /\ jc' = JcForgetAll(jc)
    /\ sd' = SdForget(sd)
    /\ js' = JsBlank
    /\ UNCHANGED <<config, idle, busy, destroyCalls>>

\* startRunner: s.idle[name] = id under the mutex; then the loop goes on.
startRunner_Insert(t) ==
    /\ hd[t].pc = "insert"
    /\ idle' = MapPut(idle, hd[t].name, hd[t].id)
    /\ hd' = Observe([hd EXCEPT ![t].new = @ \cup {hd[t].name},
                                ![t].left = @ - 1,
                                ![t].pc = LoopNext(hd[t].left, FALSE)], t)
    /\ jc' = JcForgetAll(jc)
    /\ sd' = SdForget(sd)
    /\ js' = JsBlank
    /\ UNCHANGED <<config, busy, nextName, engineVars>>

\* return s.runnerCount(), err
HandleDesiredRunnerCount_Return(t) ==
    /\ hd[t].pc = "ret"
    /\ hd' = Observe([hd EXCEPT ![t].ret = runnerCount, ![t].pc = "ready"], t)
    /\ jc' = JcForgetAll(jc)
    /\ sd' = SdForget(sd)
    /\ js' = JsBlank
    /\ UNCHANGED <<config, idle, busy, nextName, engineVars>>

\* ----------------------------------------------------- HandleJobStarted

\* A HandleJobStarted that takes the runner out of idle and loses it.
HandleJobStarted_Lost(name) ==
    /\ IF name \in DOMAIN idle
       THEN /\ idle' = MapDel(idle, name)
            /\ busy' = busy
       ELSE UNCHANGED <<idle, busy>>
    /\ hd' = ForgetAll(hd)
    /\ jc' = JcForgetAll(jc)
    /\ sd' = SdForget(sd)
    /\ js' = [name |-> name, found |-> name \in DOMAIN idle, ret |-> "nil"]
    /\ UNCHANGED <<config, nextName, engineVars>>

\* A HandleJobStarted that records the runner in busy and leaves it in idle.
HandleJobStarted_NoDelete(name) ==
    /\ IF name \in DOMAIN idle
       THEN /\ idle' = idle
            /\ busy' = MapPut(busy, name, idle[name])
       ELSE UNCHANGED <<idle, busy>>
    /\ hd' = ForgetAll(hd)
    /\ jc' = JcForgetAll(jc)
    /\ sd' = SdForget(sd)
    /\ js' = [name |-> name, found |-> name \in DOMAIN idle, ret |-> "nil"]
    /\ UNCHANGED <<config, nextName, engineVars>>

\* A HandleJobStarted that records the runner in busy whether or not it
\* finds it in idle.
HandleJobStarted_NoCheck(name) ==
    /\ idle' = MapDel(idle, name)
    /\ busy' = MapPut(busy, name,
                      IF name \in DOMAIN idle THEN idle[name] ELSE NoId)
    /\ hd' = ForgetAll(hd)
    /\ jc' = JcForgetAll(jc)
    /\ sd' = SdForget(sd)
    /\ js' = [name |-> name, found |-> name \in DOMAIN idle, ret |-> "nil"]
    /\ UNCHANGED <<config, nextName, engineVars>>

\* The whole handler runs under the mutex: one step.
HandleJobStarted(name) ==
    /\ IF name \in DOMAIN idle
       THEN /\ idle' = MapDel(idle, name)
            /\ busy' = MapPut(busy, name, idle[name])
       ELSE UNCHANGED <<idle, busy>>
    /\ hd' = ForgetAll(hd)
    /\ jc' = JcForgetAll(jc)
    /\ sd' = SdForget(sd)
    /\ js' = [name |-> name, found |-> name \in DOMAIN idle, ret |-> "nil"]
    /\ UNCHANGED <<config, nextName, engineVars>>

\* --------------------------------------------------- HandleJobCompleted

\* A removeRunner that finds the id and deletes nothing.
removeRunner_NoDelete(name) ==
    IF name \in DOMAIN busy
    THEN [id |-> busy[name], from |-> "busy", idle |-> idle, busy |-> busy]
    ELSE IF name \in DOMAIN idle
    THEN [id |-> idle[name], from |-> "idle", idle |-> idle, busy |-> busy]
    ELSE [id |-> NoId, from |-> "none", idle |-> idle, busy |-> busy]

\* A removeRunner that looks in busy only.
removeRunner_BusyOnly(name) ==
    IF name \in DOMAIN busy
    THEN [id |-> busy[name], from |-> "busy",
          idle |-> idle, busy |-> MapDel(busy, name)]
    ELSE [id |-> NoId, from |-> "none", idle |-> idle, busy |-> busy]

\* removeRunner(name): the id found (busy first, then idle), the map it was
\* found in, and the two maps after the delete; NoId and the maps as they
\* were when the name is in neither.
removeRunner(name) ==
    IF name \in DOMAIN busy
    THEN [id |-> busy[name], from |-> "busy",
          idle |-> idle, busy |-> MapDel(busy, name)]
    ELSE IF name \in DOMAIN idle
    THEN [id |-> idle[name], from |-> "idle",
          idle |-> MapDel(idle, name), busy |-> busy]
    ELSE [id |-> NoId, from |-> "none", idle |-> idle, busy |-> busy]

\* id := s.removeRunner(name); if id == "" { return nil }
HandleJobCompleted(c, name) ==
    /\ FirstFree(c, {u \in CThreads : jc[u].pc = "ready"})
    /\ LET r == removeRunner(name)
       IN  /\ idle' = r.idle
           /\ busy' = r.busy
           /\ jc' = JcObserve([jc EXCEPT ![c] =
                        IF r.id = NoId
                        THEN [JcBlank EXCEPT !.name = name,
                                             !.last = "unknown"]
                        ELSE [JcBlank EXCEPT !.pc = "destroy",
                                             !.name = name, !.id = r.id,
                                             !.from = r.from]], c)
    /\ hd' = ForgetAll(hd)
    /\ sd' = SdForget(sd)
    /\ js' = JsBlank
    /\ UNCHANGED <<config, nextName, engineVars>>

\* A destroy step that puts the runner back in idle when DestroyRunner fails.
HandleJobCompleted_DestroyRollback(c) ==
    /\ jc[c].pc = "destroy"
    /\ destroyCalls' = [destroyCalls EXCEPT ![jc[c].id] = @ + 1]
    /\ \E ok \in BOOLEAN :
          /\ jc' = JcObserve([jc EXCEPT ![c] =
                      [JcBlank EXCEPT !.name = jc[c].name,
                                      !.id = jc[c].id,
                                      !.from = jc[c].from,
                                      !.engErr = ~ok,
                                      !.last = IF ok THEN "destroyed"
                                               ELSE "failed"]], c)
          /\ idle' = IF ok THEN idle ELSE MapPut(idle, jc[c].name, jc[c].id)
    /\ hd' = ForgetAll(hd)
    /\ sd' = SdForget(sd)
    /\ js' = JsBlank
    /\ UNCHANGED <<config, busy, nextName, started>>

\* s.engine.DestroyRunner(ctx, id); its error is returned, nothing is undone.
HandleJobCompleted_Destroy(c) ==
    /\ jc[c].pc = "destroy"
    /\ destroyCalls' = [destroyCalls EXCEPT ![jc[c].id] = @ + 1]
    /\ \E ok \in BOOLEAN :
          jc' = JcObserve([jc EXCEPT ![c] =
                   [JcBlank EXCEPT !.name = jc[c].name,
                                   !.id = jc[c].id,
                                   !.from = jc[c].from,
                                   !.engErr = ~ok,
                                   !.last = IF ok THEN "destroyed"
                                            ELSE "failed"]], c)
    /\ hd' = ForgetAll(hd)
    /\ sd' = SdForget(sd)
    /\ js' = JsBlank
    /\ UNCHANGED <<config, idle, busy, nextName, started>>

\* ------------------------------------------------------------- Shutdown

\* A Shutdown that returns at once when Engine.Shutdown fails.
Shutdown_Engine_ReturnOnError ==
    /\ sd.pc = "ready"
    /\ \E ok \in BOOLEAN :
          sd' = IF ok
                THEN [SdBlank EXCEPT !.pc = "clear", !.calls = 1]
                ELSE [SdBlank EXCEPT !.calls = 1, !.engErr = TRUE,
                                     !.returned = TRUE]
    /\ hd' = ForgetAll(hd)
    /\ jc' = JcForgetAll(jc)
    /\ js' = JsBlank
    /\ UNCHANGED <<config, idle, busy, nextName, engineVars>>

\* s.engine.Shutdown(ctx); an error is logged.
Shutdown_Engine ==
    /\ sd.pc = "ready"
    /\ \E ok \in BOOLEAN :
          sd' = [SdBlank EXCEPT !.pc = "clear", !.calls = 1, !.engErr = ~ok]
    /\ hd' = ForgetAll(hd)
    /\ jc' = JcForgetAll(jc)
    /\ js' = JsBlank
    /\ UNCHANGED <<config, idle, busy, nextName, engineVars>>

\* clear(s.idle); clear(s.busy) under the mutex; Shutdown returns.
Shutdown_Clear ==
    /\ sd.pc = "clear"
    /\ idle' = EmptyMap
    /\ busy' = EmptyMap
    /\ sd' = [sd EXCEPT !.pc = "ready", !.returned = TRUE,
                        !.mixed = (DOMAIN idle # {} /\ DOMAIN busy # {})]
    /\ hd' = ForgetAll(hd)
    /\ jc' = JcForgetAll(jc)
    /\ js' = JsBlank
    /\ UNCHANGED <<config, nextName, engineVars>>

\* ----------------------------------------------------------------- Next

\* Every operation may be invoked at any time, with any runner name.
Next ==
    \/ /\ \E t \in DThreads, count \in 0..MaxDesired :
             HandleDesiredRunnerCount(t, count)
       /\ UNCHANGED <<life, res, notScaler>>
    \/ /\ \E t \in DThreads : startRunner_Call(t)
       /\ UNCHANGED <<life, res, notScaler>>
    \/ /\ \E t \in DThreads : startRunner_Insert(t)
       /\ UNCHANGED <<life, res, notScaler>>
    \/ /\ \E t \in DThreads : HandleDesiredRunnerCount_Return(t)
       /\ UNCHANGED <<life, res, notScaler>>
    \/ /\ \E name \in Names : HandleJobStarted(name)
       /\ UNCHANGED <<life, res, notScaler>>
    \/ /\ \E c \in CThreads, name \in Names : HandleJobCompleted(c, name)
       /\ UNCHANGED <<life, res, notScaler>>
    \/ /\ \E c \in CThreads : HandleJobCompleted_Destroy(c)
       /\ UNCHANGED <<life, res, notScaler>>
    \/ /\ Shutdown_Engine
       /\ UNCHANGED <<life, res, notScaler>>
    \/ /\ Shutdown_Clear
       /\ UNCHANGED <<life, res, notScaler>>

Spec == Init /\ [][Next]_vars

(***************************************************************************)
(* The same operations, without Shutdown, with the upstream's view of each *)
(* runner's lifecycle recorded in life: "admitted" once the name is in the *)
(* inventory, "started" once a job-started was delivered for an admitted   *)
(* name, "completed" once a job-completed was delivered after that.        *)
(* Events still arrive at any time and for any name.                       *)
(***************************************************************************)
NextLifecycle ==
    \/ /\ \E t \in DThreads, count \in 0..MaxDesired :
             HandleDesiredRunnerCount(t, count)
       /\ UNCHANGED <<life, res, notScaler>>
    \/ /\ \E t \in DThreads : startRunner_Call(t)
       /\ UNCHANGED <<life, res, notScaler>>
    \/ \E t \in DThreads :
          /\ startRunner_Insert(t)
          /\ life' = [life EXCEPT ![hd[t].name] = "admitted"]
          /\ UNCHANGED <<res, notScaler>>
    \/ /\ \E t \in DThreads : HandleDesiredRunnerCount_Return(t)
       /\ UNCHANGED <<life, res, notScaler>>
    \/ \E name \in Names :
          /\ HandleJobStarted(name)
          /\ life' = [life EXCEPT ![name] =
                         IF @ = "admitted" THEN "started" ELSE @]
          /\ UNCHANGED <<res, notScaler>>
    \/ \E c \in CThreads, name \in Names :
          /\ HandleJobCompleted(c, name)
          /\ life' = [life EXCEPT ![name] =
                         IF @ = "started" THEN "completed" ELSE @]
          /\ UNCHANGED <<res, notScaler>>
    \/ /\ \E c \in CThreads : HandleJobCompleted_Destroy(c)
       /\ UNCHANGED <<life, res, notScaler>>

SpecLifecycle == Init /\ [][NextLifecycle]_vars

(***************************************************************************)
(* The same operations with the backend's resources recorded in res:       *)
(* alive holds the names whose resource a successful Engine.StartRunner    *)
(* created and no successful destroy has removed; shut is set once         *)
(* Scaler.Shutdown has called Engine.Shutdown.  Engine.Shutdown destroys   *)
(* the resources of the runners the Engine tracks: all of them when it     *)
(* returns no error, any part of them when it returns one.                 *)
(***************************************************************************)
NextResources ==
    \/ /\ \E t \in DThreads, count \in 0..MaxDesired :
             HandleDesiredRunnerCount(t, count)
       /\ UNCHANGED <<life, res, notScaler>>
    \/ \E t \in DThreads :
          /\ startRunner_Call(t)
          /\ res' = [res EXCEPT !.alive = IF hd'[t].pc = "insert"
                                          THEN @ \cup {hd'[t].name}
                                          ELSE @]
          /\ UNCHANGED <<life, notScaler>>
    \/ /\ \E t \in DThreads : startRunner_Insert(t)
       /\ UNCHANGED <<life, res, notScaler>>
    \/ /\ \E t \in DThreads : HandleDesiredRunnerCount_Return(t)
       /\ UNCHANGED <<life, res, notScaler>>
    \/ /\ \E name \in Names : HandleJobStarted(name)
       /\ UNCHANGED <<life, res, notScaler>>
    \/ /\ \E c \in CThreads, name \in Names : HandleJobCompleted(c, name)
       /\ UNCHANGED <<life, res, notScaler>>
    \/ \E c \in CThreads :
          /\ HandleJobCompleted_Destroy(c)
          /\ res' = [res EXCEPT !.alive = IF jc'[c].engErr
                                          THEN @
                                          ELSE @ \ {jc[c].name}]
          /\ UNCHANGED <<life, notScaler>>
    \/ /\ Shutdown_Engine
       /\ \E gone \in SUBSET res.alive :
             /\ ~sd'.engErr => gone = res.alive
             /\ res' = [alive |-> res.alive \ gone, shut |-> TRUE]
       /\ UNCHANGED <<life, notScaler>>
    \/ /\ Shutdown_Clear
       /\ UNCHANGED <<life, res, notScaler>>

SpecResources == Init /\ [][NextResources]_vars

(***************************************************************************)
(* The Engine implementations.  StartRunner and DestroyRunner are one step *)
(* each; Shutdown takes its snapshot, attempts one entry per step, then    *)
(* clears the inventory and returns.  The caller passes a fresh name to    *)
(* every StartRunner and any id to DestroyRunner.  Shutdown is called once,*)
(* at process termination, when no other call is in flight or follows.     *)
(***************************************************************************)

\* cfg.NewEngine builds one of the two Engines.
NewEngine(k) ==
    /\ kind = "none"
    /\ kind' = k
    /\ UNCHANGED <<inventory, backend, issued, live, destroyed, eop, esh>>
    /\ UNCHANGED notEngine

\* A removal that deletes nothing.
removeFromTracking_Keep(inv, id) == inv

\* for name, cid := range tracking { if cid == id { delete; break } }
removeFromTracking(inv, id) ==
    IF \E n \in DOMAIN inv : inv[n] = id
    THEN MapDel(inv, CHOOSE n \in DOMAIN inv : inv[n] = id)
    ELSE inv

\* The history of the calls: id was returned by StartRunner for name.
Started(l, name, id) == MapPut(l, name, id)

\* The history of the calls: DestroyRunner(id) has returned nil.
Destroyed(l, id) == [n \in {m \in DOMAIN l : l[m] # id} |-> l[n]]

\* --------------------------------------------------------------- docker

\* docker StartRunner: fault is the daemon call that fails.
\*   ContainerCreate fails: return the error.
\*   ContainerStart fails: best-effort ContainerRemove, return the error.
\*   otherwise e.containers[name] = resp.ID; return resp.ID.
\* A StartRunner that records the container as soon as it is created.
DockerStart_TrackOnCreate(fault) ==
    IF fault = "create"
    THEN [ret |-> "err", track |-> FALSE, created |-> FALSE,
          cleanup |-> FALSE]
    ELSE IF fault = "start"
    THEN [ret |-> "err", track |-> TRUE, created |-> TRUE,
          cleanup |-> TRUE]
    ELSE [ret |-> "nil", track |-> TRUE, created |-> TRUE,
          cleanup |-> FALSE]

DockerStart(fault) ==
    IF fault = "create"
    THEN [ret |-> "err", track |-> FALSE, created |-> FALSE,
          cleanup |-> FALSE]
    ELSE IF fault = "start"
    THEN [ret |-> "err", track |-> FALSE, created |-> TRUE,
          cleanup |-> TRUE]
    ELSE [ret |-> "nil", track |-> TRUE, created |-> TRUE,
          cleanup |-> FALSE]

Docker_StartRunner_Do(fault, removed) ==
    /\ kind = "docker"
    /\ issued < MaxNames
    /\ fault # "start" => removed
    /\ LET name == issued + 1
           id == EngineId(name)
           r == DockerStart(fault)
       IN  /\ issued' = name
           /\ inventory' = IF r.track THEN MapPut(inventory, name, id)
                           ELSE inventory
           /\ backend' = IF r.created /\ ~(r.cleanup /\ removed)
                         THEN backend \cup {id} ELSE backend
           /\ live' = IF r.ret = "nil" THEN Started(live, name, id) ELSE live
           /\ eop' = [EopBlank EXCEPT
                         !.op = "start", !.name = name,
                         !.id = IF r.ret = "nil" THEN id ELSE NoId,
                         !.ret = r.ret,
                         !.stage = fault,
                         !.created = r.created, !.cleanup = r.cleanup,
                         !.before = inventory]
    /\ UNCHANGED <<kind, destroyed, esh>>
    /\ UNCHANGED notEngine

\* A docker DestroyRunner that forgets the container whatever the daemon said.
DockerDestroy_AlwaysUntrack(removeErr) ==
    [ret |-> IF removeErr THEN "err" ELSE "nil", untrack |-> TRUE]

\* docker DestroyRunner: a ContainerRemove error is returned before the
\* tracking map is touched; otherwise the entry with this id is deleted.
DockerDestroy(removeErr) ==
    IF removeErr THEN [ret |-> "err", untrack |-> FALSE]
    ELSE [ret |-> "nil", untrack |-> TRUE]

\* The daemon cannot remove a container that does not exist.
Docker_DestroyRunner_Do(id, removeErr) ==
    /\ kind = "docker"
    /\ id \notin backend => removeErr
    /\ LET r == DockerDestroy(removeErr)
       IN  /\ inventory' = IF r.untrack
                           THEN removeFromTracking(inventory, id)
                           ELSE inventory
           /\ backend' = IF removeErr THEN backend ELSE backend \ {id}
           /\ live' = IF r.ret = "nil" THEN Destroyed(live, id) ELSE live
           /\ destroyed' = IF r.ret = "nil" THEN destroyed \cup {id}
                           ELSE destroyed
           /\ eop' = [EopBlank EXCEPT
                         !.op = "destroy", !.id = id, !.ret = r.ret,
                         !.stage = IF removeErr THEN "remove" ELSE "none",
                         !.before = inventory,
                         !.goneBefore = id \in destroyed,
                         !.absent = id \notin backend]
           /\ esh' = [esh EXCEPT !.failedIds = FailedIds(id, r.ret)]
    /\ UNCHANGED <<kind, issued>>
    /\ UNCHANGED notEngine

\* DestroyRunner called while no Shutdown is running.
Docker_DestroyRunner(id, removeErr) ==
    esh.pc = "ready" /\ Docker_DestroyRunner_Do(id, removeErr)

\* ------------------------------------------------------------------ gcp

\* gcp StartRunner: fault is the API call that fails.
\*   Insert fails: return the error.
\*   op.Wait fails: return the error.
\*   otherwise e.instances[name] = name; return name.
GcpStart(fault) ==
    IF fault = "insert"
    THEN [ret |-> "err", track |-> FALSE, created |-> FALSE,
          cleanup |-> FALSE]
    ELSE IF fault = "wait"
    THEN [ret |-> "err", track |-> FALSE, created |-> TRUE,
          cleanup |-> FALSE]
    ELSE [ret |-> "nil", track |-> TRUE, created |-> TRUE,
          cleanup |-> FALSE]

\* StartRunner called before Shutdown.
Docker_StartRunner(fault, removed) ==
    esh.pc = "ready" /\ Docker_StartRunner_Do(fault, removed)

\* The instance name is the id.  exists: the VM of an accepted Insert whose
\* wait failed may or may not have come up.
Gcp_StartRunner_Do(fault, exists) ==
    /\ kind = "gcp"
    /\ issued < MaxNames
    /\ fault = "none" => exists
    /\ fault = "insert" => ~exists
    /\ LET name == issued + 1
           id == name
           r == GcpStart(fault)
       IN  /\ issued' = name
           /\ inventory' = IF r.track THEN MapPut(inventory, name, id)
                           ELSE inventory
           /\ backend' = IF exists THEN backend \cup {id} ELSE backend
           /\ live' = IF r.ret = "nil" THEN Started(live, name, id) ELSE live
           /\ eop' = [EopBlank EXCEPT
                         !.op = "start", !.name = name,
                         !.id = IF r.ret = "nil" THEN id ELSE NoId,
                         !.ret = r.ret,
                         !.stage = fault,
                         !.created = exists, !.cleanup = r.cleanup,
                         !.before = inventory]
    /\ UNCHANGED <<kind, destroyed, esh>>
    /\ UNCHANGED notEngine

\* StartRunner called before Shutdown.
Gcp_StartRunner(fault, exists) ==
    esh.pc = "ready" /\ Gcp_StartRunner_Do(fault, exists)

\* gcp DestroyRunner: deleteErr and waitErr are the errors of client.Delete
\* and of op.Wait (NoText: nil).  A not-found error of either call is
\* success: the instance is untracked and nil returned; any other error is
\* returned with the tracking untouched.
GcpDestroy(deleteErr, waitErr) ==
    IF deleteErr # NoText
    THEN IF isNotFound(deleteErr)
         THEN [ret |-> "nil", untrack |-> TRUE, stage |-> "delete",
               text |-> deleteErr]
         ELSE [ret |-> "err", untrack |-> FALSE, stage |-> "delete",
               text |-> deleteErr]
    ELSE IF waitErr # NoText
    THEN IF isNotFound(waitErr)
         THEN [ret |-> "nil", untrack |-> TRUE, stage |-> "wait",
               text |-> waitErr]
         ELSE [ret |-> "err", untrack |-> FALSE, stage |-> "wait",
               text |-> waitErr]
    ELSE [ret |-> "nil", untrack |-> TRUE, stage |-> "none",
          text |-> NoText]

\* What the API may do: Delete of an instance that does not exist fails; a
\* failed Delete leaves the instance as it was; after a failed wait the
\* instance may be gone or not (gone); after a wait without error it is gone.
GcpApi(id, deleteErr, waitErr, gone) ==
    /\ id \notin backend => deleteErr # NoText
    /\ deleteErr # NoText => waitErr = NoText /\ gone = (id \notin backend)
    /\ deleteErr = NoText /\ waitErr = NoText => gone

\* The body of gcp DestroyRunner.
GcpDestroyCall(id, deleteErr, waitErr, gone) ==
    LET r == GcpDestroy(deleteErr, waitErr)
    IN  /\ inventory' = IF r.untrack THEN removeFromTracking(inventory, id)
                        ELSE inventory
        /\ backend' = IF gone THEN backend \ {id} ELSE backend
        /\ live' = IF r.ret = "nil" THEN Destroyed(live, id) ELSE live
        /\ destroyed' = IF r.ret = "nil" THEN destroyed \cup {id}
                        ELSE destroyed
        /\ eop' = [EopBlank EXCEPT
                      !.op = "destroy", !.id = id, !.ret = r.ret,
                      !.stage = r.stage, !.text = r.text,
                      !.before = inventory,
                      !.goneBefore = id \in destroyed,
                      !.absent = id \notin backend]

Gcp_DestroyRunner_Do(id, deleteErr, waitErr, gone) ==
    /\ kind = "gcp"
    /\ GcpApi(id, deleteErr, waitErr, gone)
    /\ GcpDestroyCall(id, deleteErr, waitErr, gone)
    /\ esh' = [esh EXCEPT !.failedIds =
                  FailedIds(id, GcpDestroy(deleteErr, waitErr).ret)]
    /\ UNCHANGED <<kind, issued>>
    /\ UNCHANGED notEngine

\* DestroyRunner called while no Shutdown is running.
Gcp_DestroyRunner(id, deleteErr, waitErr, gone) ==
    esh.pc = "ready" /\ Gcp_DestroyRunner_Do(id, deleteErr, waitErr, gone)

\* ------------------------------------------------------- Engine.Shutdown

\* A Shutdown that keeps the last error.
KeepFirst_Last(firstErr, err) == err

\* if firstErr == nil { firstErr = err }
KeepFirst(firstErr, err) == IF firstErr = Nil THEN err ELSE firstErr

\* snapshot := copy of the tracking map, under the lock.
Shutdown_Snapshot ==
    /\ esh.pc = "ready"
    /\ esh' = [EshBlank EXCEPT !.pc = "loop", !.snapshot = inventory,
                               !.todo = DOMAIN inventory,
                               !.failedIds = esh.failedIds]
    /\ eop' = EopBlank
    /\ UNCHANGED <<kind, inventory, backend, issued, live, destroyed>>
    /\ UNCHANGED notEngine

Docker_Shutdown_Snapshot == kind = "docker" /\ Shutdown_Snapshot

Gcp_Shutdown_Snapshot == kind = "gcp" /\ Shutdown_Snapshot

\* One iteration of docker Shutdown's loop: ContainerRemove(id), and the
\* error, if any, kept when it is the first.  The map is not touched.
\* A Shutdown whose loop ends at the first ContainerRemove that fails.
Docker_Shutdown_Remove_StopOnError(name, removeErr) ==
    /\ kind = "docker"
    /\ esh.pc = "loop"
    /\ name \in esh.todo
    /\ LET id == esh.snapshot[name]
           err == Failure("remove", id)
       IN  /\ id \notin backend => removeErr
           /\ backend' = IF removeErr THEN backend ELSE backend \ {id}
           /\ esh' = [esh EXCEPT
                 !.todo = IF removeErr THEN {} ELSE @ \ {name},
                 !.attempted = @ \cup {name},
                 !.missing = IF id \in backend THEN @ ELSE @ \cup {name},
                 !.failures = IF removeErr THEN Append(@, err) ELSE @,
                 !.firstErr = IF removeErr THEN KeepFirst(@, err) ELSE @]
    /\ eop' = EopBlank
    /\ UNCHANGED <<kind, inventory, issued, live, destroyed>>
    /\ UNCHANGED notEngine

Docker_Shutdown_Remove(name, removeErr) ==
    /\ kind = "docker"
    /\ esh.pc = "loop"
    /\ name \in esh.todo
    /\ LET id == esh.snapshot[name]
           err == Failure("remove", id)
       IN  /\ id \notin backend => removeErr
           /\ backend' = IF removeErr THEN backend ELSE backend \ {id}
           /\ esh' = [esh EXCEPT
                 !.todo = @ \ {name},
                 !.attempted = @ \cup {name},
                 !.missing = IF id \in backend THEN @ ELSE @ \cup {name},
                 !.failures = IF removeErr THEN Append(@, err) ELSE @,
                 !.firstErr = IF removeErr THEN KeepFirst(@, err) ELSE @]
    /\ eop' = EopBlank
    /\ UNCHANGED <<kind, inventory, issued, live, destroyed>>
    /\ UNCHANGED notEngine

\* One iteration of gcp Shutdown's loop: e.DestroyRunner(ctx, id), and its
\* error, if any, kept when it is the first.
Gcp_Shutdown_Destroy(name, deleteErr, waitErr, gone) ==
    /\ kind = "gcp"
    /\ esh.pc = "loop"
    /\ name \in esh.todo
    /\ LET id == esh.snapshot[name]
           err == Failure("destroy", id)
           failed == GcpDestroy(deleteErr, waitErr).ret = "err"
       IN  /\ GcpApi(id, deleteErr, waitErr, gone)
           /\ GcpDestroyCall(id, deleteErr, waitErr, gone)
           /\ esh' = [esh EXCEPT
                 !.todo = @ \ {name},
                 !.attempted = @ \cup {name},
                 !.deletes = @ + 1,
                 !.failures = IF failed THEN Append(@, err) ELSE @,
                 !.firstErr = IF failed THEN KeepFirst(@, err) ELSE @]
    /\ UNCHANGED <<kind, issued>>
    /\ UNCHANGED notEngine

\* docker Shutdown after the loop: clear(e.containers); return firstErr.
Docker_Shutdown_Clear ==
    /\ kind = "docker"
    /\ esh.pc = "loop"
    /\ esh.todo = {}
    /\ inventory' = EmptyMap
    /\ esh' = [esh EXCEPT !.pc = "done", !.ret = esh.firstErr,
                          !.after = <<"clear">>]
    /\ eop' = EopBlank
    /\ UNCHANGED <<kind, backend, issued, live, destroyed>>
    /\ UNCHANGED notEngine

\* gcp Shutdown after the loop: clear(e.instances); the error of
\* client.Close, then of opClient.Close, kept when firstErr is nil; return.
\* A Shutdown whose close errors replace the error captured before.
CloseError_Override(firstErr, failed, call) ==
    IF failed THEN Failure(call, NoId) ELSE firstErr

\* if err := c.Close(); err != nil && firstErr == nil { firstErr = err }
CloseError(firstErr, failed, call) ==
    IF failed /\ firstErr = Nil THEN Failure(call, NoId) ELSE firstErr

\* gcp Shutdown after the loop: clear(e.instances), e.client.Close(),
\* e.opClient.Close(), return firstErr.
Gcp_Shutdown_Clear(closeErr, opCloseErr) ==
    /\ kind = "gcp"
    /\ esh.pc = "loop"
    /\ esh.todo = {}
    /\ inventory' = EmptyMap
    /\ LET e1 == CloseError(esh.firstErr, closeErr, "client.Close")
           e2 == CloseError(e1, opCloseErr, "opClient.Close")
           c1 == IF closeErr THEN <<Failure("client.Close", NoId)>>
                 ELSE <<>>
           c2 == IF opCloseErr THEN <<Failure("opClient.Close", NoId)>>
                 ELSE <<>>
       IN  esh' = [esh EXCEPT
                      !.pc = "done", !.firstErr = e2, !.ret = e2,
                      !.after = <<"clear", "client.Close", "opClient.Close">>,
                      !.closeErrs = c1 \o c2]
    /\ eop' = EopBlank
    /\ UNCHANGED <<kind, backend, issued, live, destroyed>>
    /\ UNCHANGED notEngine

\* ------------------------------------------------------------ NextEngine

DockerFaults == {"none", "create", "start"}

GcpFaults == {"none", "insert", "wait"}

\* A container is removed behind the Engine's back (it crashed, or someone
\* removed it through the Docker API): the daemon no longer has it, the
\* Engine still tracks it.
Docker_ContainerGone(id) ==
    /\ kind = "docker"
    /\ esh.pc \in {"ready", "loop"}
    /\ id \in backend
    /\ backend' = backend \ {id}
    /\ eop' = EopBlank
    /\ UNCHANGED <<kind, inventory, issued, live, destroyed, esh>>
    /\ UNCHANGED notEngine

NextEngine ==
    \/ \E k \in {"docker", "gcp"} : NewEngine(k)
    \/ \E id \in Ids : Docker_ContainerGone(id)
    \/ \E fault \in DockerFaults, removed \in BOOLEAN :
          Docker_StartRunner(fault, removed)
    \/ \E id \in Ids, removeErr \in BOOLEAN :
          Docker_DestroyRunner(id, removeErr)
    \/ \E fault \in GcpFaults, exists \in BOOLEAN :
          Gcp_StartRunner(fault, exists)
    \/ \E id \in Names, deleteErr, waitErr \in ErrorTexts \cup {NoText},
          gone \in BOOLEAN :
          Gcp_DestroyRunner(id, deleteErr, waitErr, gone)
    \/ Docker_Shutdown_Snapshot
    \/ Gcp_Shutdown_Snapshot
    \/ \E name \in Names, removeErr \in BOOLEAN :
          Docker_Shutdown_Remove(name, removeErr)
    \/ \E name \in Names, deleteErr, waitErr \in ErrorTexts \cup {NoText},
          gone \in BOOLEAN :
          Gcp_Shutdown_Destroy(name, deleteErr, waitErr, gone)
    \/ Docker_Shutdown_Clear
    \/ \E closeErr, opCloseErr \in BOOLEAN :
          Gcp_Shutdown_Clear(closeErr, opCloseErr)

\* The Scaler takes no step here: one configuration of it is enough.
InitEngine == Init /\ minRunners = 0 /\ maxRunners = 1

SpecEngine == InitEngine /\ [][NextEngine]_vars

\* The Engines when the caller does not wait for its StartRunner calls to
\* return before it calls Shutdown: a StartRunner can complete while
\* Shutdown is in its loop.
NextEngineConcurrent ==
    \/ NextEngine
    \/ /\ esh.pc = "loop"
       /\ \E fault \in DockerFaults, removed \in BOOLEAN :
             Docker_StartRunner_Do(fault, removed)
    \/ /\ esh.pc = "loop"
       /\ \E fault \in GcpFaults, exists \in BOOLEAN :
             Gcp_StartRunner_Do(fault, exists)

SpecEngineConcurrent == InitEngine /\ [][NextEngineConcurrent]_vars

\* C13: when Engine.Shutdown returns (either backend), every entry of its
\* snapshot has been attempted, whether or not an earlier one failed; the
\* inventory is empty; and if a destroy failed, the returned error is the
\* first such failure.
ShutdownAttemptsAllKeepsFirstError ==
    esh.pc = "done" =>
        /\ esh.attempted = DOMAIN esh.snapshot
        /\ inventory = EmptyMap
        /\ esh.failures # <<>> => esh.ret = esh.failures[1]

\* Shutdown has returned after two entries failed, one after the other.
ShutdownAttemptsAllKeepsFirstError_Witness ==
    /\ esh.pc = "done"
    /\ Len(esh.failures) = 2
    /\ esh.failures[1] # esh.failures[2]
    /\ esh.ret = esh.failures[1]

\* The text s has the text p somewhere in it.
Mentions(s, p) ==
    \E i \in 1..Len(s) :
        i + Len(p) - 1 <= Len(s) /\ SubSeq(s, i, i + Len(p) - 1) = p

MentionsNotFound(s) ==
    \/ Mentions(s, PatternError404)
    \/ Mentions(s, PatternCodeNotFound)
    \/ Mentions(s, PatternNotFoundLower)

\* C14: a gcp DestroyRunner whose Delete call or whose wait failed has
\* returned nil with the id absent from the inventory when the error text
\* mentions 'Error 404', 'code = NotFound' or 'notFound', and has returned
\* the error with the inventory as it was for any other text.
CloudDestroyNotFoundIsSuccess ==
    (kind = "gcp" /\ eop.op = "destroy" /\ eop.stage \in {"delete", "wait"})
    => IF MentionsNotFound(eop.text)
       THEN /\ eop.ret = "nil"
            /\ \A n \in DOMAIN inventory : inventory[n] # eop.id
       ELSE /\ eop.ret = "err"
            /\ inventory = eop.before

\* The wait on the delete of a tracked VM failed with a gRPC not-found, and
\* DestroyRunner returned nil.
CloudDestroyNotFoundIsSuccess_Witness ==
    /\ kind = "gcp"
    /\ eop.op = "destroy"
    /\ eop.stage = "wait"
    /\ eop.text = TextCodeNotFound
    /\ \E n \in DOMAIN eop.before : eop.before[n] = eop.id
    /\ eop.ret = "nil"

\* C15: for either backend, a DestroyRunner of an id that an earlier
\* DestroyRunner has destroyed (the resource is gone, and the backend says
\* so) has returned nil.
DestroyIsIdempotent ==
    (/\ eop.op = "destroy"
     /\ eop.goneBefore
     /\ eop.absent
     /\ kind = "gcp" => eop.text \in GoneTexts)
    => eop.ret = "nil"

StartFailureDestroysCreated ==
    (eop.op = "start" /\ eop.ret = "err" /\ eop.stage \in {"start", "wait"})
    => eop.cleanup

\* The inventory maps exactly the names whose StartRunner succeeded and for
\* whose id no DestroyRunner has returned nil since, each to the id that
\* StartRunner returned; a StartRunner that failed has added nothing.
InventoryIsLiveRunners ==
    /\ inventory = live
    /\ (eop.op = "start" /\ eop.ret = "err") => inventory = eop.before

\* C18: until Engine.Shutdown clears it, the inventory (either backend) maps
\* exactly the names whose StartRunner succeeded and for whose id no
\* DestroyRunner has returned nil since (for gcp a not-found answer is such
\* a return, and id = name), each to the id returned, and a failed
\* StartRunner has added no entry; once Shutdown has returned it is empty.
InventoryIsLiveRunnersUntilShutdown ==
    IF esh.pc = "done" THEN inventory = EmptyMap ELSE InventoryIsLiveRunners

\* A gcp DestroyRunner has just untracked a VM on a not-found answer to
\* Delete while another VM stays tracked under its own name.
InventoryIsLiveRunnersUntilShutdown_Witness ==
    /\ kind = "gcp"
    /\ esh.pc = "ready"
    /\ eop.op = "destroy"
    /\ eop.stage = "delete"
    /\ eop.ret = "nil"
    /\ \E n \in DOMAIN eop.before : eop.before[n] = eop.id
    /\ \E n \in DOMAIN inventory : inventory[n] = n

(***************************************************************************)
(* The process: run(ctx) sets up, in order, the configuration, the         *)
(* scaleset client, the runner group, the scale set, the Engine, the       *)
(* message session, the Scaler and the listener, then runs the listener    *)
(* until it returns; the deferred calls run when run returns.              *)
(***************************************************************************)

\* The steps of run before the listener runs, in order.
Stages ==
    <<"config", "client", "group", "scaleset", "engine", "session",
      "scaler", "listener">>

\* Steps that can fail, each with "return fmt.Errorf(...)"; scaler.New
\* returns no error.
CanFail(stage) == stage # "scaler"

\* The scale set's deletion deferred with the context run was given.
Deferred_ParentContext(stage) ==
    IF stage = "scaleset"
    THEN <<[call |-> "DeleteRunnerScaleSet", ctx |-> "parent"]>>
    ELSE IF stage = "session"
    THEN <<[call |-> "Close", ctx |-> "background"]>>
    ELSE IF stage = "scaler"
    THEN <<[call |-> "Shutdown", ctx |-> "detached"]>>
    ELSE <<>>

\* A run that does not defer s.Shutdown.
Deferred_NoShutdown(stage) ==
    IF stage = "scaleset"
    THEN <<[call |-> "DeleteRunnerScaleSet", ctx |-> "detached"]>>
    ELSE IF stage = "session"
    THEN <<[call |-> "Close", ctx |-> "background"]>>
    ELSE <<>>

\* The defer statement that follows the step, with the context it passes:
\*   DeleteRunnerScaleSet(context.WithoutCancel(ctx), ...)
\*   sessionClient.Close(context.Background())
\*   s.Shutdown(context.WithoutCancel(ctx))
Deferred(stage) ==
    IF stage = "scaleset"
    THEN <<[call |-> "DeleteRunnerScaleSet", ctx |-> "detached"]>>
    ELSE IF stage = "session"
    THEN <<[call |-> "Close", ctx |-> "background"]>>
    ELSE IF stage = "scaler"
    THEN <<[call |-> "Shutdown", ctx |-> "detached"]>>
    ELSE <<>>

\* The step after a step of Stages; the listener runs after the last.
After(stage) ==
    LET i == CHOOSE j \in 1..Len(Stages) : Stages[j] = stage
    IN  IF i = Len(Stages) THEN "run" ELSE Stages[i + 1]

\* Deferred calls run first in, first out.
NextDeferred_Fifo(defers) ==
    CHOOSE i \in 1..Len(defers) : \A j \in 1..Len(defers) : i <= j

\* Deferred calls run last in, first out: the next is the last pushed.
NextDeferred(defers) == Len(defers)

\* The sequence without its i-th element.
Without(seq, i) == SubSeq(seq, 1, i - 1) \o SubSeq(seq, i + 1, Len(seq))

\* The context passed to run is cancelled (a termination signal).
Cancel ==
    /\ ~boot.cancelled
    /\ boot.pc # "exit"
    /\ boot' = [boot EXCEPT !.cancelled = TRUE]
    /\ UNCHANGED notRun

\* One step of the set-up: it fails and run returns the error, or it
\* succeeds and the defer statement that follows it, if any, is executed.
run_Setup(ok) ==
    /\ \E i \in 1..Len(Stages) : boot.pc = Stages[i]
    /\ ~ok => CanFail(boot.pc)
    /\ boot' = IF ok
               THEN [boot EXCEPT !.pc = After(boot.pc),
                                 !.done = @ \cup {boot.pc},
                                 !.defers = @ \o Deferred(boot.pc)]
               ELSE [boot EXCEPT !.pc = "unwind", !.ret = "err",
                                 !.failed = boot.pc]
    /\ UNCHANGED notRun

\* A run that takes every nil from l.Run for success:
\*   if err := l.Run(ctx, s); err != nil && !errors.Is(err, context.Canceled)
listenerError_NilIsSuccess(result) ==
    IF result \in {"canceled", "nil"} THEN "nil" ELSE "err"

\* if err := l.Run(ctx, s); !errors.Is(err, context.Canceled) {
\*     return fmt.Errorf("listener: %w", err) }
\* return nil
listenerError(result) == IF result = "canceled" THEN "nil" ELSE "err"

\* main: os.Exit(1) when rootCmd.Execute returns run's error; otherwise
\* main returns and the exit code is 0.
ExitCode(ret) == IF ret = "nil" THEN 0 ELSE 1

\* l.Run(ctx, s) returns: context.Canceled (only once ctx is cancelled),
\* another error, or nil.  run returns nil for context.Canceled and
\* fmt.Errorf("listener: %w", err) for anything else.
run_Listen(result) ==
    /\ boot.pc = "run"
    /\ result = "canceled" => boot.cancelled
    /\ boot' = [boot EXCEPT !.pc = "unwind", !.loop = result,
                            !.ret = listenerError(result)]
    /\ UNCHANGED notRun

\* run is returning: the next deferred call runs; its error, if any, is
\* dropped or logged.
run_Deferred(ok) ==
    /\ boot.pc = "unwind"
    /\ boot.defers # <<>>
    /\ LET i == NextDeferred(boot.defers)
       IN  boot' = [boot EXCEPT
                       !.defers = Without(@, i),
                       !.log = Append(@, [call |-> boot.defers[i].call,
                                          ctx |-> boot.defers[i].ctx,
                                          ok |-> ok])]
    /\ UNCHANGED notRun

\* Every deferred call has run: run has returned.
run_Return ==
    /\ boot.pc = "unwind"
    /\ boot.defers = <<>>
    /\ boot' = [boot EXCEPT !.pc = "exit"]
    /\ UNCHANGED notRun

NextBootstrap ==
    \/ Cancel
    \/ \E ok \in BOOLEAN : run_Setup(ok)
    \/ \E result \in {"canceled", "other", "nil"} : run_Listen(result)
    \/ \E ok \in BOOLEAN : run_Deferred(ok)
    \/ run_Return

\* Neither the Scaler nor the Engine is looked into here: one
\* configuration is enough.
InitBootstrap == Init /\ minRunners = 0 /\ maxRunners = 1

SpecBootstrap == InitBootstrap /\ [][NextBootstrap]_vars

\* The position in the log of run's deferred calls at which call ran (0:
\* it has not run).
Ran(call) ==
    IF \E i \in 1..Len(boot.log) : boot.log[i].call = call
    THEN CHOOSE i \in 1..Len(boot.log) : boot.log[i].call = call
    ELSE 0

\* C20: once the listener has returned on cancellation, the session is
\* closed only after Scaler.Shutdown has run, under a context detached from
\* the cancelled one, the scale set is deleted only after the session has
\* been closed, and all three have run when run has returned.
BootstrapShutdownOrder ==
    boot.loop = "canceled" =>
        /\ Ran("Close") # 0 =>
               /\ Ran("Shutdown") # 0
               /\ Ran("Shutdown") < Ran("Close")
               /\ boot.log[Ran("Shutdown")].ctx = "detached"
        /\ Ran("DeleteRunnerScaleSet") # 0 =>
               /\ Ran("Close") # 0
               /\ Ran("Close") < Ran("DeleteRunnerScaleSet")
        /\ boot.pc = "exit" => Ran("DeleteRunnerScaleSet") # 0

\* run has returned nil after a cancellation, the three calls made.
BootstrapShutdownOrder_Witness ==
    /\ boot.pc = "exit"
    /\ boot.loop = "canceled"
    /\ boot.ret = "nil"
    /\ Len(boot.log) = 3

\* C21: when run has returned after CreateRunnerScaleSet succeeded, whatever
\* made it return (a later set-up step failing, the listener returning an
\* error or nil, cancellation), DeleteRunnerScaleSet has been called, with a
\* context that the cancellation of run's context does not cancel.
ScaleSetDeletedOnEveryReturn ==
    (boot.pc = "exit" /\ "scaleset" \in boot.done)
    => /\ Ran("DeleteRunnerScaleSet") # 0
       /\ boot.log[Ran("DeleteRunnerScaleSet")].ctx \in
              {"detached", "background"}

\* run has returned because the message session could not be created, its
\* context cancelled meanwhile, and the scale set has been deleted.
ScaleSetDeletedOnEveryReturn_Witness ==
    /\ boot.pc = "exit"
    /\ boot.failed = "session"
    /\ boot.cancelled
    /\ Ran("DeleteRunnerScaleSet") # 0

\* C39: when run has returned, the exit code is 0 only if the listener
\* ended with the cancellation error, and it is not 0 when a set-up step
\* failed (configuration, client, runner group, scale set, engine, session,
\* listener) or when the listener ended with anything else, nil included.
ExitStatusOfRun ==
    boot.pc = "exit" =>
        /\ ExitCode(boot.ret) = 0 <=> boot.loop = "canceled"
        /\ boot.failed # "none" => ExitCode(boot.ret) # 0
        /\ ExitCode(boot.ret) = 0 =>
               \A i \in 1..Len(Stages) : Stages[i] \in boot.done

\* run has returned an error because l.Run returned nil, every set-up step
\* done.
ExitStatusOfRun_Witness ==
    /\ boot.pc = "exit"
    /\ boot.loop = "nil"
    /\ boot.failed = "none"
    /\ ExitCode(boot.ret) = 1

RunnerCounts == {-1, 0, 1}

\* ApplyDefaults: max_runners 0 becomes 10.
DefaultMaxRunners == 10

\* The configurations a file and flags can produce.
Configs ==
    [urlOk : BOOLEAN, Token : BOOLEAN, ClientID : BOOLEAN,
     InstallationID : BOOLEAN, PrivateKey : BOOLEAN, Name : BOOLEAN,
     blankLabel : BOOLEAN, MinRunners : RunnerCounts,
     MaxRunners : RunnerCounts,
     Docker : BOOLEAN, GCP : BOOLEAN, AWS : BOOLEAN, Azure : BOOLEAN,
     Project : BOOLEAN, Zone : BOOLEAN, Image : BOOLEAN]

\* ApplyDefaults, for the fields Validate looks at.
ApplyDefaults(c) ==
    [c EXCEPT !.MaxRunners = IF @ = 0 THEN DefaultMaxRunners ELSE @]

\* validateAuth
validateAuth(c) ==
    LET hasToken == c.Token
        hasApp == c.ClientID \/ c.InstallationID \/ c.PrivateKey
    IN  IF ~hasToken /\ ~hasApp THEN "no credentials"
        ELSE IF hasApp /\ ~c.ClientID THEN "github.app.client_id"
        ELSE IF hasApp /\ ~c.InstallationID
        THEN "github.app.installation_id"
        ELSE IF hasApp /\ ~c.PrivateKey THEN "github.app.private_key"
        ELSE "nil"

\* An enabled list that does not look at azure.
Enabled_NoAzure(c) ==
    (IF c.Docker THEN <<"docker">> ELSE <<>>)
    \o (IF c.GCP THEN <<"gcp">> ELSE <<>>)
    \o (IF c.AWS THEN <<"aws">> ELSE <<>>)

\* enabled := []string{}; one append per engine with Enable set, in the
\* order docker, gcp, aws, azure.
Enabled(c) ==
    (IF c.Docker THEN <<"docker">> ELSE <<>>)
    \o (IF c.GCP THEN <<"gcp">> ELSE <<>>)
    \o (IF c.AWS THEN <<"aws">> ELSE <<>>)
    \o (IF c.Azure THEN <<"azure">> ELSE <<>>)

\* The engine part of Validate.
validateEngine(c) ==
    LET enabled == Enabled(c)
    IN  IF Len(enabled) = 0 THEN "at least one engine"
        ELSE IF Len(enabled) > 1 THEN "only one engine"
        ELSE IF enabled[1] = "docker" THEN "nil"
        ELSE IF enabled[1] = "gcp"
        THEN IF ~c.Project THEN "engine.gcp.project"
             ELSE IF ~c.Zone THEN "engine.gcp.zone"
             ELSE IF ~c.Image THEN "engine.gcp.image"
             ELSE "nil"
        ELSE IF enabled[1] = "aws" THEN "aws not yet implemented"
        ELSE IF enabled[1] = "azure" THEN "azure not yet implemented"
        ELSE "nil"

\* Validate, on the configuration with its defaults applied: the error
\* returned, by the check that fails first, or "nil".
Validate(c) ==
    IF ~c.urlOk THEN "github.url"
    ELSE IF validateAuth(c) # "nil" THEN validateAuth(c)
    ELSE IF ~c.Name THEN "scaleset.name"
    ELSE IF c.blankLabel THEN "scaleset.labels"
    ELSE IF c.MaxRunners < c.MinRunners THEN "scaleset.max_runners"
    ELSE validateEngine(c)

\* config.Load and applyFlagOverrides have produced c.
Load(c) ==
    /\ conf.pc = "start"
    /\ conf' = [pc |-> "loaded", cfg |-> c, err |-> "none"]
    /\ UNCHANGED notConfig

\* cfg.Validate(): c.ApplyDefaults(), then the checks.
Config_Validate ==
    /\ conf.pc = "loaded"
    /\ conf' = [pc |-> "validated", cfg |-> ApplyDefaults(conf.cfg),
                err |-> Validate(ApplyDefaults(conf.cfg))]
    /\ UNCHANGED notConfig

NextConfig ==
    \/ conf.pc = "start" /\ \E c \in Configs : Load(c)
    \/ Config_Validate

\* Neither the Scaler nor the Engine is looked into here: one
\* configuration of the Scaler is enough.
InitConfig == Init /\ minRunners = 0 /\ maxRunners = 1

SpecConfig == InitConfig /\ [][NextConfig]_vars

\* The engines whose enable flag is set.
EnabledEngines ==
    {n \in {"docker", "gcp", "aws", "azure"} :
        \/ n = "docker" /\ conf.cfg.Docker
        \/ n = "gcp" /\ conf.cfg.GCP
        \/ n = "aws" /\ conf.cfg.AWS
        \/ n = "azure" /\ conf.cfg.Azure}

\* Validate found nothing wrong before it came to the engines.
ReachedEngineCheck ==
    /\ conf.pc = "validated"
    /\ conf.err \notin {"github.url", "no credentials", "github.app.client_id",
                        "github.app.installation_id",
                        "github.app.private_key", "scaleset.name",
                        "scaleset.labels", "scaleset.max_runners"}

\* C22: a configuration that Validate accepts has exactly one engine
\* enabled, docker or gcp; when Validate comes to the engines, none enabled
\* is an error, more than one is an error, and aws alone or azure alone is
\* rejected as not yet implemented.
ValidateExactlyOneEngine ==
    /\ (conf.pc = "validated" /\ conf.err = "nil")
       => EnabledEngines \in {{"docker"}, {"gcp"}}
    /\ ReachedEngineCheck =>
          /\ EnabledEngines = {} => conf.err = "at least one engine"
          /\ Cardinality(EnabledEngines) > 1 => conf.err = "only one engine"
          /\ EnabledEngines = {"aws"} => conf.err = "aws not yet implemented"
          /\ EnabledEngines = {"azure"}
             => conf.err = "azure not yet implemented"

\* An otherwise valid configuration with docker and azure enabled has been
\* rejected.
ValidateExactlyOneEngine_Witness ==
    /\ ReachedEngineCheck
    /\ EnabledEngines = {"docker", "azure"}
    /\ conf.err = "only one engine"

\* C23: a configuration that Validate accepts has
\* 0 <= min_runners <= max_runners.
AcceptedScaleParams ==
    (conf.pc = "validated" /\ conf.err = "nil")
    => /\ 0 <= conf.cfg.MinRunners
       /\ conf.cfg.MinRunners <= conf.cfg.MaxRunners

(***************************************************************************)
(* The locking discipline.  Each operation is the sequence of its          *)
(* statements that matter here: Lock and Unlock of Scaler.mu or of the     *)
(* Engine's mu, accesses to the maps, network calls, and returns.  A       *)
(* network call or a branch carries the statements that follow when the    *)
(* call fails or the branch is taken (alts), in place of the rest.         *)
(***************************************************************************)

Lock(m) == [kind |-> "lock", mutex |-> m, call |-> "-", alts |-> {}]

Unlock(m) == [kind |-> "unlock", mutex |-> m, call |-> "-", alts |-> {}]

Mem(m) == [kind |-> "mem", mutex |-> m, call |-> "-", alts |-> {}]

Net(call, alts) ==
    [kind |-> "net", mutex |-> "-", call |-> call, alts |-> alts]

Branch(alts) == [kind |-> "branch", mutex |-> "-", call |-> "-", alts |-> alts]

\* s.mu.Lock(); <map access>; s.mu.Unlock()
ScalerSection == <<Lock("Scaler.mu"), Mem("Scaler.mu"), Unlock("Scaler.mu")>>

\* e.mu.Lock(); <map access>; e.mu.Unlock()
EngineSection == <<Lock("Engine.mu"), Mem("Engine.mu"), Unlock("Engine.mu")>>

\* Engine.StartRunner followed by k, or by kerr when it returns an error.
\*   docker: ContainerCreate; ContainerStart (on failure ContainerRemove);
\*           the map insert under e.mu.
\*   gcp:    Insert; op.Wait; the map insert under e.mu.
Stmts_StartRunner(engine, k, kerr) ==
    IF engine = "docker"
    THEN <<Net("ContainerCreate", {kerr}),
           Net("ContainerStart",
               {<<Net("ContainerRemove", {})>> \o kerr})>>
         \o EngineSection \o k
    ELSE <<Net("Insert", {kerr}), Net("Wait", {kerr})>>
         \o EngineSection \o k

\* Engine.DestroyRunner followed by k, or by kerr when it returns an error.
\*   docker: ContainerRemove; the map delete under e.mu.
\*   gcp:    Delete; op.Wait; removeFromTracking under e.mu, also after a
\*           not-found error of either call.
Stmts_DestroyRunner(engine, k, kerr) ==
    IF engine = "docker"
    THEN <<Net("ContainerRemove", {kerr})>> \o EngineSection \o k
    ELSE <<Net("Delete", {EngineSection \o k, kerr}),
           Net("Wait", {EngineSection \o k, kerr})>>
         \o EngineSection \o k

\* Engine.Shutdown with n snapshot entries, followed by k: the snapshot
\* under e.mu; per entry ContainerRemove (docker) or e.DestroyRunner (gcp),
\* the loop going on after an error; clear under e.mu; for gcp the two
\* Close calls.
RECURSIVE Stmts_ShutdownLoop(_, _, _)
Stmts_ShutdownLoop(engine, n, k) ==
    IF n = 0 THEN k
    ELSE LET rest == Stmts_ShutdownLoop(engine, n - 1, k)
         IN  IF engine = "docker"
             THEN <<Net("ContainerRemove", {})>> \o rest
             ELSE Stmts_DestroyRunner(engine, rest, rest)

Stmts_EngineShutdown(engine, n, k) ==
    EngineSection
    \o Stmts_ShutdownLoop(engine, n,
           EngineSection
           \o (IF engine = "gcp"
               THEN <<Net("client.Close", {}), Net("opClient.Close", {})>>
               ELSE <<>>)
           \o k)

\* startRunner followed by k, or by kerr when it returns an error:
\* GenerateJitRunnerConfig; Engine.StartRunner; the insert under s.mu.
Stmts_startRunner(engine, k, kerr) ==
    <<Net("GenerateJitRunnerConfig", {kerr})>>
    \o Stmts_StartRunner(engine, ScalerSection \o k, kerr)

\* for range delta { startRunner }; return s.runnerCount() -- also on error.
RECURSIVE Stmts_Starts(_, _)
Stmts_Starts(engine, delta) ==
    IF delta = 0 THEN ScalerSection
    ELSE Stmts_startRunner(engine, Stmts_Starts(engine, delta - 1),
                           ScalerSection)

\* HandleDesiredRunnerCount: the count under s.mu; nothing more when there
\* is nothing to start, else the starts.
Stmts_HandleDesiredRunnerCount(engine, delta) ==
    ScalerSection
    \o (IF delta = 0 THEN <<>> ELSE Stmts_Starts(engine, delta))

\* HandleJobStarted: s.mu.Lock(); defer s.mu.Unlock(); the move.
Stmts_HandleJobStarted == ScalerSection

\* A HandleJobCompleted that unlocks on return (defer), after the destroy.
Stmts_HandleJobCompleted_DeferUnlock(engine) ==
    <<Lock("Scaler.mu"), Mem("Scaler.mu"),
      Branch({<<Unlock("Scaler.mu")>>})>>
    \o Stmts_DestroyRunner(engine, <<Unlock("Scaler.mu")>>,
                           <<Unlock("Scaler.mu")>>)

\* HandleJobCompleted: removeRunner (under s.mu, released when it returns);
\* return if the id is ""; Engine.DestroyRunner.
Stmts_HandleJobCompleted(engine) ==
    ScalerSection \o <<Branch({<<>>})>>
    \o Stmts_DestroyRunner(engine, <<>>, <<>>)

\* Scaler.Shutdown: Engine.Shutdown; clear idle and busy under s.mu.
Stmts_Shutdown(engine, n) == Stmts_EngineShutdown(engine, n, ScalerSection)

\* The gauges' callbacks: len(s.idle) / len(s.busy) under s.mu.
Stmts_Gauge == ScalerSection

\* The operations a goroutine may begin, with the Engine built.
Operations(engine) ==
    {Stmts_HandleDesiredRunnerCount(engine, d) : d \in 0..MaxDesired}
    \cup {Stmts_HandleJobStarted, Stmts_HandleJobCompleted(engine),
          Stmts_Gauge}
    \cup {Stmts_Shutdown(engine, n) : n \in 0..MaxNames}

\* A goroutine with nothing in progress calls an operation.
Begin(g, stmts) ==
    /\ kind # "none"
    /\ lk.prog[g] = <<>>
    /\ stmts # <<>>
    /\ lk' = [lk EXCEPT !.prog[g] = stmts]
    /\ UNCHANGED <<notLocks, engineImpl>>

\* The holder of the mutex named m.
Holder(m) == IF m = "Scaler.mu" THEN lk.mu ELSE lk.emu

\* The goroutine's next statement is Lock: it gets the mutex once it is
\* free (sync.Mutex is not reentrant).
Step_Lock(g) ==
    /\ lk.prog[g] # <<>>
    /\ Head(lk.prog[g]).kind = "lock"
    /\ Holder(Head(lk.prog[g]).mutex) = {}
    /\ lk' = IF Head(lk.prog[g]).mutex = "Scaler.mu"
             THEN [lk EXCEPT !.mu = {g}, !.prog[g] = Tail(@)]
             ELSE [lk EXCEPT !.emu = {g}, !.prog[g] = Tail(@)]
    /\ UNCHANGED <<notLocks, engineImpl>>

\* The goroutine's next statement is Unlock.
Step_Unlock(g) ==
    /\ lk.prog[g] # <<>>
    /\ Head(lk.prog[g]).kind = "unlock"
    /\ lk' = IF Head(lk.prog[g]).mutex = "Scaler.mu"
             THEN [lk EXCEPT !.mu = @ \ {g}, !.prog[g] = Tail(@)]
             ELSE [lk EXCEPT !.emu = @ \ {g}, !.prog[g] = Tail(@)]
    /\ UNCHANGED <<notLocks, engineImpl>>

\* The goroutine's next statement reads or writes a map.
Step_Mem(g) ==
    /\ lk.prog[g] # <<>>
    /\ Head(lk.prog[g]).kind = "mem"
    /\ lk' = [lk EXCEPT !.prog[g] = Tail(@)]
    /\ UNCHANGED <<notLocks, engineImpl>>

\* The network call the goroutine is in returns without error, or the
\* branch is not taken.
Step_Return(g) ==
    /\ lk.prog[g] # <<>>
    /\ Head(lk.prog[g]).kind \in {"net", "branch"}
    /\ lk' = [lk EXCEPT !.prog[g] = Tail(@)]
    /\ UNCHANGED <<notLocks, engineImpl>>

\* The network call the goroutine is in returns an error, or the branch is
\* taken: the statements of that path follow.
Step_Alt(g) ==
    /\ lk.prog[g] # <<>>
    /\ Head(lk.prog[g]).kind \in {"net", "branch"}
    /\ \E alt \in Head(lk.prog[g]).alts :
          lk' = [lk EXCEPT !.prog[g] = alt]
    /\ UNCHANGED <<notLocks, engineImpl>>

NextLocks ==
    \/ \E k \in {"docker", "gcp"} : NewEngine(k)
    \/ \E g \in Goroutines : \E stmts \in Operations(kind) : Begin(g, stmts)
    \/ \E g \in Goroutines : Step_Lock(g)
    \/ \E g \in Goroutines : Step_Unlock(g)
    \/ \E g \in Goroutines : Step_Mem(g)
    \/ \E g \in Goroutines : Step_Return(g)
    \/ \E g \in Goroutines : Step_Alt(g)

\* The Scaler's maps are not looked into here: one configuration is enough.
InitLocks == Init /\ minRunners = 0 /\ maxRunners = 1

SpecLocks == InitLocks /\ [][NextLocks]_vars

\* The goroutine is inside a network call.
InNetworkCall(g) ==
    lk.prog[g] # <<>> /\ Head(lk.prog[g]).kind = "net"

\* C24: no goroutine holds Scaler.mu or the Engine's mu while it is inside
\* a network call (the JIT request, the backend calls of Engine.StartRunner,
\* DestroyRunner and Shutdown).
NoMutexAcrossNetworkCall ==
    \A g \in Goroutines :
        InNetworkCall(g) => g \notin lk.mu /\ g \notin lk.emu

\* One goroutine is inside HandleJobCompleted's destroy call while another
\* holds Scaler.mu.
NoMutexAcrossNetworkCall_Witness ==
    \E g, h \in Goroutines :
        /\ InNetworkCall(g)
        /\ Head(lk.prog[g]).call \in {"ContainerRemove", "Delete"}
        /\ Len(lk.prog[g]) <= 5
        /\ lk.mu = {h}
        /\ h # g

(***************************************************************************)
(* The Scaler driven by one listener: HandleDesiredRunnerCount is called   *)
(* only while no other invocation of it is in flight.  Everything else is  *)
(* as in Next.                                                             *)
(***************************************************************************)
NoDesiredCountInFlight == \A u \in DThreads : hd[u].pc = "ready"

NextSerial ==
    \/ /\ NoDesiredCountInFlight
       /\ \E t \in DThreads, count \in 0..MaxDesired :
             HandleDesiredRunnerCount(t, count)
       /\ UNCHANGED <<life, res, notScaler>>
    \/ /\ \E t \in DThreads : startRunner_Call(t)
       /\ UNCHANGED <<life, res, notScaler>>
    \/ /\ \E t \in DThreads : startRunner_Insert(t)
       /\ UNCHANGED <<life, res, notScaler>>
    \/ /\ \E t \in DThreads : HandleDesiredRunnerCount_Return(t)
       /\ UNCHANGED <<life, res, notScaler>>
    \/ /\ \E name \in Names : HandleJobStarted(name)
       /\ UNCHANGED <<life, res, notScaler>>
    \/ /\ \E c \in CThreads, name \in Names : HandleJobCompleted(c, name)
       /\ UNCHANGED <<life, res, notScaler>>
    \/ /\ \E c \in CThreads : HandleJobCompleted_Destroy(c)
       /\ UNCHANGED <<life, res, notScaler>>
    \/ /\ Shutdown_Engine
       /\ UNCHANGED <<life, res, notScaler>>
    \/ /\ Shutdown_Clear
       /\ UNCHANGED <<life, res, notScaler>>

SpecSerial == Init /\ [][NextSerial]_vars

\* C25: with at most one HandleDesiredRunnerCount invocation in flight at
\* any time, job-started and job-completed interleaving freely, the
\* inventory never holds more than maxRunners runners, the states between
\* the starts of a batch included.
SerialInventoryWithinMaxRunners ==
    Cardinality(DOMAIN idle) + Cardinality(DOMAIN busy) <= maxRunners

\* An invocation is between the two starts of a batch, the runner of the
\* first start already moved to busy by a job-started, another start to come.
SerialInventoryWithinMaxRunners_Witness ==
    \E t \in DThreads :
        /\ hd[t].pc = "jit"
        /\ hd[t].left >= 1
        /\ DOMAIN busy # {}
        /\ runnerCount < maxRunners

(***************************************************************************)
(* The Scaler's operations, as in Next, with past recording at every step  *)
(* the names that were in idle and no longer are, and the names that were  *)
(* in busy and no longer are.  Every runner gets a fresh name.             *)
(***************************************************************************)
Leaves ==
    past' = [leftIdle |-> past.leftIdle \cup (DOMAIN idle \ DOMAIN idle'),
             leftBusy |-> past.leftBusy \cup (DOMAIN busy \ DOMAIN busy')]

NextForward ==
    \/ /\ \E t \in DThreads, count \in 0..MaxDesired :
             HandleDesiredRunnerCount(t, count)
       /\ Leaves
       /\ UNCHANGED <<life, res, notScalerPast>>
    \/ /\ \E t \in DThreads : startRunner_Call(t)
       /\ Leaves
       /\ UNCHANGED <<life, res, notScalerPast>>
    \/ /\ \E t \in DThreads : startRunner_Insert(t)
       /\ Leaves
       /\ UNCHANGED <<life, res, notScalerPast>>
    \/ /\ \E t \in DThreads : HandleDesiredRunnerCount_Return(t)
       /\ Leaves
       /\ UNCHANGED <<life, res, notScalerPast>>
    \/ /\ \E name \in Names : HandleJobStarted(name)
       /\ Leaves
       /\ UNCHANGED <<life, res, notScalerPast>>
    \/ /\ \E c \in CThreads, name \in Names : HandleJobCompleted(c, name)
       /\ Leaves
       /\ UNCHANGED <<life, res, notScalerPast>>
    \/ /\ \E c \in CThreads : HandleJobCompleted_Destroy(c)
       /\ Leaves
       /\ UNCHANGED <<life, res, notScalerPast>>
    \/ /\ Shutdown_Engine
       /\ Leaves
       /\ UNCHANGED <<life, res, notScalerPast>>
    \/ /\ Shutdown_Clear
       /\ Leaves
       /\ UNCHANGED <<life, res, notScalerPast>>

SpecForward == Init /\ [][NextForward]_vars

\* C26: a name that has left idle (moved to busy by a job-started, removed
\* by a job-completed or by Shutdown) is never in idle again, so a runner is
\* inserted into idle once; a name that has left busy is in neither map
\* again; and a name leaves busy only by removal, never into idle.
RunnersOnlyMoveForward ==
    /\ [](DOMAIN idle \cap (past.leftIdle \cup past.leftBusy) = {})
    /\ [](DOMAIN busy \cap past.leftBusy = {})
    /\ [][\A n \in DOMAIN busy :
             n \notin DOMAIN busy' => n \notin DOMAIN idle']_vars

\* One runner has gone idle, busy, removed, and another is busy having been
\* idle, while the first name's job-completed is delivered once more.
RunnersOnlyMoveForward_Witness ==
    /\ past.leftBusy # {}
    /\ \E n \in DOMAIN busy : n \in past.leftIdle
    /\ \E c \in CThreads : jc[c].last = "unknown" /\ jc[c].name \in past.leftBusy

\* gcp Shutdown has returned.
GcpShutdownDone == kind = "gcp" /\ esh.pc = "done"

\* C30 as stated: gcp Shutdown clears the inventory and then closes both API
\* clients whether or not a destroy failed, returns a close error only if no
\* destroy failed, and on an empty inventory issues no Delete and returns
\* nil.
GcpShutdownEmptyReturnsNil ==
    GcpShutdownDone =>
        /\ inventory = EmptyMap
        /\ esh.after = <<"clear", "client.Close", "opClient.Close">>
        /\ (\E i \in DOMAIN esh.closeErrs : esh.ret = esh.closeErrs[i]) =>
              esh.failures = <<>>
        /\ esh.snapshot = EmptyMap => esh.deletes = 0 /\ esh.ret = Nil

\* C30: gcp Shutdown clears the inventory and then closes both API clients
\* whether or not a destroy failed; it returns the first destroy error if
\* there was one, else the first close error if there was one, else nil; on
\* an empty inventory it issues no Delete, and returns nil when both closes
\* succeed.
GcpShutdownClosesClients ==
    GcpShutdownDone =>
        /\ inventory = EmptyMap
        /\ esh.after = <<"clear", "client.Close", "opClient.Close">>
        /\ (\E i \in DOMAIN esh.closeErrs : esh.ret = esh.closeErrs[i]) =>
              esh.failures = <<>>
        /\ esh.ret = IF esh.failures # <<>> THEN esh.failures[1]
                     ELSE IF esh.closeErrs # <<>> THEN esh.closeErrs[1]
                     ELSE Nil
        /\ esh.deletes = Cardinality(DOMAIN esh.snapshot)
        /\ esh.snapshot = EmptyMap =>
              /\ esh.deletes = 0
              /\ esh.closeErrs = <<>> => esh.ret = Nil

\* gcp Shutdown has returned its first destroy error although both closes
\* failed after it.
GcpShutdownClosesClients_Witness ==
    /\ GcpShutdownDone
    /\ Len(esh.failures) >= 1
    /\ Len(esh.closeErrs) = 2
    /\ esh.ret = esh.failures[1]

(***************************************************************************)
(* The Scaler in operation, for as long as the process runs: the listener  *)
(* goes on delivering messages and Shutdown is not called.  Names never    *)
(* run out (each is drawn from a new UUID), so when the Scaler is empty    *)
(* and nothing is in flight the model forgets the names and calls of the   *)
(* past; the Scaler's own fields are as they were.                         *)
(***************************************************************************)
ForgetHistory ==
    /\ Quiescent
    /\ idle = EmptyMap
    /\ busy = EmptyMap
    /\ nextName > 0
    /\ nextName' = 0
    /\ started' = 0
    /\ destroyCalls' = [i \in Ids |-> 0]
    /\ hd' = [t \in DThreads |-> HdBlank]
    /\ jc' = [c \in CThreads |-> JcBlank]
    /\ js' = JsBlank
    /\ UNCHANGED <<config, idle, busy, sd>>

NextDrain ==
    \/ /\ \E t \in DThreads, count \in 0..MaxDesired :
             HandleDesiredRunnerCount(t, count)
       /\ UNCHANGED <<life, res, notScaler>>
    \/ /\ \E t \in DThreads : startRunner_Call(t)
       /\ UNCHANGED <<life, res, notScaler>>
    \/ /\ \E t \in DThreads : startRunner_Insert(t)
       /\ UNCHANGED <<life, res, notScaler>>
    \/ /\ \E t \in DThreads : HandleDesiredRunnerCount_Return(t)
       /\ UNCHANGED <<life, res, notScaler>>
    \/ /\ \E name \in Names : HandleJobStarted(name)
       /\ UNCHANGED <<life, res, notScaler>>
    \/ /\ \E c \in CThreads, name \in Names : HandleJobCompleted(c, name)
       /\ UNCHANGED <<life, res, notScaler>>
    \/ /\ \E c \in CThreads : HandleJobCompleted_Destroy(c)
       /\ UNCHANGED <<life, res, notScaler>>
    \/ /\ ForgetHistory
       /\ UNCHANGED <<life, res, notScaler>>

\* The listener delivers the job-completed of runner name while the Scaler
\* tracks it.
JobCompletedDelivered(name) ==
    /\ name \in DOMAIN idle \cup DOMAIN busy
    /\ \E c \in CThreads : HandleJobCompleted(c, name)
    /\ UNCHANGED <<life, res, notScaler>>

\* A goroutine inside a handler goes on: the calls it makes return and the
\* mutex is released by whoever holds it.
HandlerGoesOn ==
    /\ \/ \E t \in DThreads : startRunner_Call(t)
       \/ \E t \in DThreads : startRunner_Insert(t)
       \/ \E t \in DThreads : HandleDesiredRunnerCount_Return(t)
       \/ \E c \in CThreads : HandleJobCompleted_Destroy(c)
    /\ UNCHANGED <<life, res, notScaler>>

InitDrain == Init /\ minRunners = 0 /\ maxRunners = 2

SpecDrain ==
    /\ InitDrain
    /\ [][NextDrain]_vars
    /\ WF_vars(HandlerGoesOn)
    /\ \A name \in Names : SF_vars(JobCompletedDelivered(name))

\* A HandleDesiredRunnerCount is entered and computes target > current.
ScaleUpComputed ==
    \E t \in DThreads, count \in 0..MaxDesired :
        /\ HandleDesiredRunnerCount(t, count)
        /\ TargetCount(count) > runnerCount

\* C29: if from some point on no HandleDesiredRunnerCount computes
\* target > current then, every tracked runner's job-completed being
\* delivered and every Engine call returning, idle and busy are eventually
\* both empty and stay empty.
DrainByAttrition ==
    <>[][~ScaleUpComputed]_vars => <>[](idle = EmptyMap /\ busy = EmptyMap)

\* The last tracked runner has just been removed by its job-completed, after
\* two runners were admitted.
DrainByAttrition_Witness ==
    /\ idle = EmptyMap
    /\ busy = EmptyMap
    /\ nextName = MaxNames
    /\ \E c \in CThreads : jc[c].last \in {"destroyed", "failed"}

\* C31: when docker Shutdown has returned and the daemon no longer had one
\* of the tracked containers, every entry of the snapshot was attempted, every
\* other container whose removal did not fail is gone from the daemon, the
\* error of the missing container's removal was captured and an error is
\* returned (that one when no removal failed before it), and the inventory
\* is empty.
DockerShutdownWithMissingContainer ==
    (kind = "docker" /\ esh.pc = "done" /\ esh.missing # {}) =>
        /\ esh.attempted = DOMAIN esh.snapshot
        /\ \A n \in DOMAIN esh.snapshot :
              LET err == Failure("remove", esh.snapshot[n])
                  failed == \E i \in DOMAIN esh.failures : esh.failures[i] = err
              IN  /\ n \in esh.missing => failed
                  /\ ~failed => esh.snapshot[n] \notin backend
        /\ esh.ret = esh.failures[1]
        /\ esh.ret # Nil
        /\ Len(esh.failures) = Cardinality(esh.missing) =>
              \E n \in esh.missing :
                  esh.ret = Failure("remove", esh.snapshot[n])
        /\ inventory = EmptyMap

\* Shutdown has returned the error of the one missing container after it
\* removed the other tracked container.
DockerShutdownWithMissingContainer_Witness ==
    /\ kind = "docker"
    /\ esh.pc = "done"
    /\ Cardinality(esh.missing) = 1
    /\ Cardinality(DOMAIN esh.snapshot) = 2
    /\ Len(esh.failures) = 1
    /\ \E n \in esh.missing : esh.ret = Failure("remove", esh.snapshot[n])
    /\ backend = {}

\* C32: a docker StartRunner whose ContainerStart failed on a created
\* container has attempted to force-remove that container, has returned an
\* error and has left the inventory as it was, without the name or the id;
\* and a docker StartRunner has changed the inventory only when it returned
\* nil, by adding its name with the id it returned.
DockerStartFailureLeavesNoEntry ==
    (kind = "docker" /\ eop.op = "start") =>
        /\ eop.stage = "start" =>
              /\ eop.created
              /\ eop.cleanup
              /\ eop.ret = "err"
              /\ inventory = eop.before
              /\ eop.name \notin DOMAIN inventory
              /\ \A n \in DOMAIN inventory :
                    inventory[n] # EngineId(eop.name)
        /\ IF eop.ret = "nil"
           THEN inventory = MapPut(eop.before, eop.name, eop.id)
           ELSE inventory = eop.before

\* ContainerStart has just failed for a second runner while the first is
\* tracked.
DockerStartFailureLeavesNoEntry_Witness ==
    /\ kind = "docker"
    /\ eop.op = "start"
    /\ eop.stage = "start"
    /\ eop.ret = "err"
    /\ eop.cleanup
    /\ DOMAIN inventory # {}

(***************************************************************************)
(* The listener-driven operations with life recording, per name, what the  *)
(* Engine and the upstream have done: "running" once Engine.StartRunner    *)
(* has returned the runner's id, "completed" once a job-completed was      *)
(* delivered for it after that.                                            *)
(***************************************************************************)
NextDelivery ==
    \/ /\ \E t \in DThreads, count \in 0..MaxDesired :
             HandleDesiredRunnerCount(t, count)
       /\ UNCHANGED <<life, res, notScaler>>
    \/ \E t \in DThreads :
          /\ startRunner_Call(t)
          /\ life' = IF hd'[t].pc = "insert"
                     THEN [life EXCEPT ![hd'[t].name] = "running"]
                     ELSE life
          /\ UNCHANGED <<res, notScaler>>
    \/ /\ \E t \in DThreads : startRunner_Insert(t)
       /\ UNCHANGED <<life, res, notScaler>>
    \/ /\ \E t \in DThreads : HandleDesiredRunnerCount_Return(t)
       /\ UNCHANGED <<life, res, notScaler>>
    \/ /\ \E name \in Names : HandleJobStarted(name)
       /\ UNCHANGED <<life, res, notScaler>>
    \/ \E c \in CThreads, name \in Names :
          /\ HandleJobCompleted(c, name)
          /\ life' = [life EXCEPT ![name] =
                         IF @ = "running" THEN "completed" ELSE @]
          /\ UNCHANGED <<res, notScaler>>
    \/ /\ \E c \in CThreads : HandleJobCompleted_Destroy(c)
       /\ UNCHANGED <<life, res, notScaler>>

SpecDelivery == Init /\ [][NextDelivery]_vars

\* C34: once no handler is running, every runner whose Engine.StartRunner
\* returned its id and for which a job-completed was delivered afterwards
\* has had exactly one Engine.DestroyRunner call for that id, also when the
\* job-completed was handled between the Engine's return and the insertion
\* of the name into idle.
CompletedRunnerDestroyedOnce ==
    Quiescent =>
        \A n \in Names :
            life[n] = "completed" => destroyCalls[EngineId(n)] = 1

(***************************************************************************)
(* The Scaler's operations, Shutdown included, with life recording each    *)
(* runner's resource at the Engine: "alive" once Engine.StartRunner has    *)
(* returned its id, "tried" once a destroy of it was attempted and failed  *)
(* (DestroyRunner, or Engine.Shutdown, which attempts every resource the   *)
(* Engine tracks), "gone" once a destroy of it succeeded.  res.shut        *)
(* records that Engine.Shutdown has been called.                           *)
(***************************************************************************)
Outstanding == {n \in Names : life[n] \in {"alive", "tried"}}

NextTeardown ==
    \/ /\ \E t \in DThreads, count \in 0..MaxDesired :
             HandleDesiredRunnerCount(t, count)
       /\ UNCHANGED <<life, res, notScaler>>
    \/ \E t \in DThreads :
          /\ startRunner_Call(t)
          /\ life' = IF hd'[t].pc = "insert"
                     THEN [life EXCEPT ![hd'[t].name] = "alive"]
                     ELSE life
          /\ UNCHANGED <<res, notScaler>>
    \/ /\ \E t \in DThreads : startRunner_Insert(t)
       /\ UNCHANGED <<life, res, notScaler>>
    \/ /\ \E t \in DThreads : HandleDesiredRunnerCount_Return(t)
       /\ UNCHANGED <<life, res, notScaler>>
    \/ /\ \E name \in Names : HandleJobStarted(name)
       /\ UNCHANGED <<life, res, notScaler>>
    \/ /\ \E c \in CThreads, name \in Names : HandleJobCompleted(c, name)
       /\ UNCHANGED <<life, res, notScaler>>
    \/ \E c \in CThreads :
          /\ HandleJobCompleted_Destroy(c)
          /\ life' = [life EXCEPT ![jc[c].name] =
                         IF jc'[c].engErr THEN "tried" ELSE "gone"]
          /\ UNCHANGED <<res, notScaler>>
    \/ /\ Shutdown_Engine
       /\ \E gone \in SUBSET Outstanding :
             /\ ~sd'.engErr => gone = Outstanding
             /\ life' = [n \in Names |->
                            IF n \in gone THEN "gone"
                            ELSE IF n \in Outstanding THEN "tried"
                            ELSE life[n]]
       /\ res' = [res EXCEPT !.shut = TRUE]
       /\ UNCHANGED notScaler
    \/ /\ Shutdown_Clear
       /\ UNCHANGED <<life, res, notScaler>>

InitTeardown == Init /\ minRunners = 0 /\ maxRunners = 2

SpecTeardown == InitTeardown /\ [][NextTeardown]_vars

\* C35: once Scaler.Shutdown has returned and no operation is in flight,
\* idle and busy are empty and no resource whose StartRunner succeeded is
\* outstanding at the Engine without a destroy having been attempted on it,
\* also when a HandleDesiredRunnerCount was in flight during the Shutdown.
ShutdownLeavesNothingBehind ==
    (res.shut /\ Quiescent) =>
        /\ idle = EmptyMap
        /\ busy = EmptyMap
        /\ \A n \in Names : life[n] # "alive"

\* C36: when Engine.Shutdown (either backend) clears the inventory, every
\* entry it drops was in its snapshot with that id and had its destroy
\* attempted, also when a StartRunner completed while Shutdown was in its
\* loop.
ShutdownDropsOnlyAttempted ==
    [][(esh.pc = "loop" /\ esh'.pc = "done") =>
          \A n \in DOMAIN inventory :
              /\ n \in DOMAIN esh.snapshot
              /\ esh.snapshot[n] = inventory[n]
              /\ n \in esh.attempted]_vars

\* C37: a runner whose DestroyRunner returned an error (for gcp: an error
\* that is not a not-found) is still in the Engine's map when the call has
\* returned, it is in the snapshot a later Shutdown takes, and Shutdown has
\* tried to destroy it again by the time it returns.
FailedDestroyRetriedByShutdown ==
    /\ (eop.op = "destroy" /\ eop.ret = "err") =>
           /\ kind = "gcp" => ~MentionsNotFound(eop.text)
           /\ \A n \in DOMAIN eop.before :
                  eop.before[n] = eop.id =>
                      n \in DOMAIN inventory /\ inventory[n] = eop.id
    /\ \A id \in esh.failedIds :
           /\ esh.pc = "ready" => \E n \in DOMAIN inventory : inventory[n] = id
           /\ esh.pc # "ready" =>
                  \E n \in DOMAIN esh.snapshot : esh.snapshot[n] = id
           /\ esh.pc = "done" =>
                  \E n \in esh.attempted : esh.snapshot[n] = id

FailedDestroyRetriedByShutdown_Witness ==
    /\ esh.pc = "done"
    /\ \E n \in esh.attempted : esh.snapshot[n] \in esh.failedIds

\* The Engines when HandleJobCompleted and Scaler.Shutdown run at the same
\* time: HandleJobCompleted's DestroyRunner can run while Engine.Shutdown is
\* in its loop, for an id that StartRunner returned and that was tracked
\* when Shutdown began.  Neither call holds the Engine's lock across its
\* request to the backend.
SnapshotIds == {esh.snapshot[n] : n \in DOMAIN esh.snapshot}

NextEngineRace ==
    \/ NextEngine
    \/ /\ esh.pc = "loop"
       /\ \E id \in SnapshotIds, removeErr \in BOOLEAN :
             Docker_DestroyRunner_Do(id, removeErr)
    \/ /\ esh.pc = "loop"
       /\ \E id \in SnapshotIds, deleteErr, waitErr \in ErrorTexts \cup {NoText},
             gone \in BOOLEAN :
             Gcp_DestroyRunner_Do(id, deleteErr, waitErr, gone)

SpecEngineRace == InitEngine /\ [][NextEngineRace]_vars

\* C38: Engine.Shutdown sends no destroy request for an id that a
\* DestroyRunner call has already destroyed and removed from the Engine's
\* map: every id it asks the backend to destroy is still tracked.
ShutdownSkipsDestroyed ==
    [][\A name \in Names :
          (/\ esh.pc = "loop"
           /\ name \in esh.todo
           /\ name \in esh'.attempted) =>
              /\ name \in DOMAIN inventory
              /\ inventory[name] = esh.snapshot[name]]_vars

\* ------------------------------------------------------------------ types

TypeOK ==
    /\ <<minRunners, maxRunners>> \in ScaleParams
    /\ DOMAIN idle \subseteq Names
    /\ DOMAIN busy \subseteq Names
    /\ nextName \in 0..MaxNames
    /\ started \in 0..nextName
    /\ \A t \in DThreads : hd[t].pc \in {"ready", "jit", "insert", "ret"}
    /\ \A c \in CThreads : jc[c].pc \in {"ready", "destroy"}
    /\ sd.pc \in {"ready", "clear"}

\* ------------------------------------------------------------- properties

Tracked == DOMAIN idle \cup DOMAIN busy

\* C1: in every reachable state, under any interleaving of the handlers (two
\* HandleDesiredRunnerCount invocations in flight included), the inventory
\* holds at most maxRunners runners: |idle| + |busy| <= maxRunners.
InventoryWithinMaxRunners == runnerCount <= maxRunners

\* C4: in every reachable state a runner name is in at most one of the maps
\* idle and busy.
NameInAtMostOneMap == DOMAIN idle \cap DOMAIN busy = {}

\* A job-started has moved a runner to busy while another runner is idle.
NameInAtMostOneMap_Witness == DOMAIN idle # {} /\ DOMAIN busy # {}

\* C7: HandleJobCompleted has removed the runner from idle and busy when it
\* calls Engine.DestroyRunner, and when DestroyRunner fails it returns that
\* error with the runner still absent from both maps.
RemovedBeforeDestroy ==
    \A c \in CThreads :
        /\ jc[c].pc = "destroy" => jc[c].name \notin Tracked
        /\ (jc[c].pc = "ready" /\ jc[c].engErr) =>
              /\ jc[c].last = "failed"
              /\ jc[c].name \notin Tracked

\* A HandleJobCompleted has returned the error of a failed DestroyRunner.
RemovedBeforeDestroy_Witness ==
    \E c \in CThreads :
        jc[c].pc = "ready" /\ jc[c].engErr /\ jc[c].name \in Names

\* C3: Engine.DestroyRunner is called at most once for a runner's id, however
\* many job-completed events arrive for its name and however they interleave;
\* a job-completed for a name in neither map returns nil at once, calls no
\* Engine operation and leaves idle and busy as they were.
AtMostOneDestroyPerRunner ==
    /\ [](\A i \in Ids : destroyCalls[i] <= 1)
    /\ [][\A c \in CThreads, name \in Names :
             (HandleJobCompleted(c, name) /\ name \notin Tracked) =>
                 /\ UNCHANGED <<idle, busy, engineVars>>
                 /\ jc'[c].pc = "ready"
                 /\ jc'[c].last = "unknown"]_vars

\* A job-completed has arrived for a name whose runner was removed and
\* destroyed by an earlier one.
AtMostOneDestroyPerRunner_Witness ==
    \E c \in CThreads :
        /\ jc[c].pc = "ready"
        /\ jc[c].last = "unknown"
        /\ jc[c].name \in Names
        /\ destroyCalls[EngineId(jc[c].name)] = 1

\* C8: when Scaler.Shutdown has returned, idle and busy are empty and it has
\* called Engine.Shutdown exactly once, whatever the maps held and whether or
\* not Engine.Shutdown returned an error; it returns normally in both cases.
ShutdownTeardown ==
    sd.returned =>
        /\ sd.pc = "ready"
        /\ DOMAIN idle = {}
        /\ DOMAIN busy = {}
        /\ sd.calls = 1

\* Shutdown has returned after Engine.Shutdown failed, with runners in both
\* maps when it cleared them.
ShutdownTeardown_Witness == sd.returned /\ sd.engErr /\ sd.mixed

\* C6: a HandleDesiredRunnerCount whose target min(maxRunners, minRunners +
\* count) is at most the inventory size it reads returns that size and no
\* error in the same step: no Engine.StartRunner, no Engine.DestroyRunner,
\* idle and busy unchanged.
NoActiveScaleDown ==
    [][\A t \in DThreads, count \in 0..MaxDesired :
          (/\ HandleDesiredRunnerCount(t, count)
           /\ Min(maxRunners, minRunners + count) <= runnerCount) =>
              /\ UNCHANGED <<idle, busy, engineVars>>
              /\ hd'[t].pc = "ready"
              /\ hd'[t].ret = runnerCount
              /\ hd'[t].err = "nil"]_vars

\* A solo HandleDesiredRunnerCount has returned the inventory size it read,
\* which was above its target.
NoActiveScaleDown_Witness ==
    \E t \in DThreads :
        /\ hd[t].pc = "ready"
        /\ hd[t].obs
        /\ Min(maxRunners, minRunners + hd[t].count) < hd[t].cur
        /\ hd[t].ret = hd[t].cur
        /\ runnerCount = hd[t].cur

\* A HandleDesiredRunnerCount invocation of goroutine t has returned, having
\* run with no other operation in flight from its first step to its last.
ReturnedSolo(t) == hd[t].pc = "ready" /\ hd[t].obs

\* C5: a HandleDesiredRunnerCount(count) that ran alone and met no error has
\* issued exactly max(0, target - current) Engine.StartRunner calls, with
\* target = min(maxRunners, minRunners + count) and current the inventory
\* size at entry; when target >= current it has returned target and each
\* runner it started is in idle.
TargetFormula ==
    \A t \in DThreads :
        (ReturnedSolo(t) /\ hd[t].err = "nil") =>
            LET target  == Min(maxRunners, minRunners + hd[t].count)
                current == hd[t].cur
            IN  /\ hd[t].starts = Max(0, target - current)
                /\ target >= current =>
                      /\ hd[t].ret = target
                      /\ Cardinality(hd[t].new) = target - current
                      /\ hd[t].new \subseteq DOMAIN idle

\* A solo invocation on a Scaler with MinRunners = 1 has scaled from one
\* runner up to the cap: min + desired is above maxRunners.
TargetFormula_Witness ==
    \E t \in DThreads :
        /\ ReturnedSolo(t)
        /\ hd[t].err = "nil"
        /\ hd[t].cur = 1
        /\ hd[t].starts = 1
        /\ minRunners + hd[t].count > maxRunners
        /\ hd[t].ret = maxRunners

\* C9: a solo HandleDesiredRunnerCount whose k-th startRunner failed made no
\* startRunner call after it; the k-1 runners it started before are in idle,
\* the failed one is in neither map, and it returned the inventory size at
\* that moment (current + k - 1) together with the error.
FailFastWithoutRollback ==
    \A t \in DThreads :
        (ReturnedSolo(t) /\ hd[t].err # "nil") =>
            /\ hd[t].tries = Cardinality(hd[t].new) + 1
            /\ hd[t].new \subseteq DOMAIN idle
            /\ hd[t].name \notin hd[t].new
            /\ hd[t].name \notin Tracked
            /\ hd[t].ret = hd[t].cur + Cardinality(hd[t].new)
            /\ hd[t].ret = runnerCount

\* A solo invocation that had two runners to start has returned the error
\* of the first start: the second was not attempted.
FailFastWithoutRollback_Witness ==
    \E t \in DThreads :
        /\ ReturnedSolo(t)
        /\ hd[t].err = "engine"
        /\ Min(maxRunners, minRunners + hd[t].count) - hd[t].cur = 2
        /\ hd[t].tries = 1
        /\ hd[t].ret = hd[t].cur

\* C10: a startRunner whose JIT-config request failed does not call
\* Engine.StartRunner and changes neither map; the name it generated is in
\* neither map afterwards, and HandleDesiredRunnerCount returns the error.
JitFailureShortCircuits ==
    /\ [](\A t \in DThreads :
             hd[t].jit = "failed" =>
                 /\ hd[t].pc \in {"ret", "ready"}
                 /\ hd[t].err = "jit"
                 /\ hd[t].id = NoId
                 /\ hd[t].name \notin Tracked)
    /\ [][\A t \in DThreads :
             (hd[t].pc = "jit" /\ hd'[t].jit = "failed") =>
                 UNCHANGED <<idle, busy, engineVars>>]_vars

\* A HandleDesiredRunnerCount has returned the error of a failed JIT-config
\* request.
JitFailureShortCircuits_Witness ==
    \E t \in DThreads :
        hd[t].pc = "ready" /\ hd[t].jit = "failed" /\ hd[t].err = "jit"

\* Every startRunner so far admitted its runner, and every admitted runner
\* has received a job-started and then a job-completed; no handler is running.
AllLifecyclesDone ==
    /\ Quiescent
    /\ \A n \in 1..nextName : life[n] = "completed"

\* C2: once the N runners a Scaler admitted have each received a job-started
\* followed by a job-completed, in any order and interleaving across runners,
\* the Engine has received exactly N StartRunner calls and exactly N
\* DestroyRunner calls, one for the id StartRunner returned for each runner
\* (so N distinct ids), and idle and busy are empty.
OneToOneLifecycle ==
    AllLifecyclesDone =>
        /\ started = nextName
        /\ \A n \in 1..nextName : destroyCalls[EngineId(n)] = 1
        /\ \A n \in Names \ (1..nextName) : destroyCalls[EngineId(n)] = 0
        /\ DOMAIN idle = {}
        /\ DOMAIN busy = {}

\* Two runners were admitted and both lifecycles are complete.
OneToOneLifecycle_Witness == AllLifecyclesDone /\ nextName >= 2

\* C11: a HandleJobStarted for a name that is not in idle (already in busy
\* after an earlier job-started, or in neither map) returns nil, leaves idle
\* and busy as they were and calls no Engine operation.
JobStartedNotIdleIsNoOp ==
    [][\A name \in Names :
          (HandleJobStarted(name) /\ name \notin DOMAIN idle) =>
              /\ UNCHANGED <<idle, busy, engineVars>>
              /\ js'.ret = "nil"]_vars

\* A second job-started has just returned for a runner that is in busy.
JobStartedNotIdleIsNoOp_Witness ==
    /\ js.ret = "nil"
    /\ ~js.found
    /\ js.name \in DOMAIN busy

\* C27: a HandleJobStarted for a name that is in idle is one step that takes
\* the name out of idle and puts it into busy with the id idle held for it;
\* every other entry of idle and of busy is as it was, the number of tracked
\* runners is the same, and no Engine operation is called.
JobStartedMovesIdleToBusy ==
    [][\A name \in Names :
          (HandleJobStarted(name) /\ name \in DOMAIN idle) =>
              /\ DOMAIN idle' = DOMAIN idle \ {name}
              /\ DOMAIN busy' = DOMAIN busy \cup {name}
              /\ busy'[name] = idle[name]
              /\ \A n \in DOMAIN idle' : idle'[n] = idle[n]
              /\ \A n \in DOMAIN busy : busy'[n] = busy[n]
              /\ runnerCount' = runnerCount
              /\ UNCHANGED engineVars
              /\ js'.ret = "nil"]_vars

\* A job-started has just moved a runner to busy while another runner is
\* tracked.
JobStartedMovesIdleToBusy_Witness ==
    /\ js.ret = "nil"
    /\ js.found
    /\ js.name \in DOMAIN busy
    /\ DOMAIN idle \cup DOMAIN busy # {js.name}

\* C28: when a HandleJobCompleted has just returned the error of a failed
\* DestroyRunner, its runner is in neither map, so a HandleDesiredRunnerCount
\* that follows with a target above the number of the other tracked runners
\* reads that number as current and enters the start loop for the
\* difference, which is at least one runner: the replacement.
ReplacementAfterFailedDestroy ==
    [][\A c \in CThreads, t \in DThreads, count \in 0..MaxDesired :
          LET remaining == Cardinality(Tracked \ {jc[c].name})
          IN  (/\ jc[c].pc = "ready"
               /\ jc[c].last = "failed"
               /\ HandleDesiredRunnerCount(t, count)
               /\ TargetCount(count) > remaining) =>
                  /\ jc[c].name \notin Tracked
                  /\ runnerCount = remaining
                  /\ hd'[t].pc = "jit"
                  /\ hd'[t].left = TargetCount(count) - remaining
                  /\ hd'[t].left >= 1]_vars

\* A HandleDesiredRunnerCount entered with nothing else in flight has had
\* Engine.StartRunner succeed for a new runner while an earlier runner, whose
\* DestroyRunner failed, is outstanding at the Engine and in neither map.
ReplacementAfterFailedDestroy_Witness ==
    \E t \in DThreads :
        /\ hd[t].obs
        /\ hd[t].pc = "insert"
        /\ hd[t].cur = runnerCount
        /\ ~res.shut
        /\ \E n \in res.alive : n \notin Tracked /\ n # hd[t].name

\* C33: when startRunner writes s.idle[name] = id the name is in neither
\* idle nor busy, whatever was delivered for that name while the Engine was
\* starting the runner; the write adds that one entry and changes no other.
StartRunnerInsertsNewName ==
    [][\A t \in DThreads :
          startRunner_Insert(t) =>
              /\ hd[t].name \notin DOMAIN idle
              /\ hd[t].name \notin DOMAIN busy
              /\ DOMAIN idle' = DOMAIN idle \cup {hd[t].name}
              /\ idle'[hd[t].name] = hd[t].id
              /\ \A n \in DOMAIN idle : idle'[n] = idle[n]
              /\ busy' = busy]_vars

\* A job-started for the runner being admitted has just returned, before
\* startRunner has inserted the name, and another runner is tracked.
StartRunnerInsertsNewName_Witness ==
    \E t \in DThreads :
        /\ hd[t].pc = "insert"
        /\ js.ret = "nil"
        /\ js.name = hd[t].name
        /\ DOMAIN idle \cup DOMAIN busy # {}

\* C12: a job-completed for a runner that is in idle and not in busy (its
\* job-started was missed) deletes it from idle, leaves busy alone, and goes
\* on to call Engine.DestroyRunner with the id idle held for it; a runner in
\* busy is taken from busy.  The name is then in neither map.
CompletedFallsBackToIdle ==
    [][\A c \in CThreads :
          /\ \A name \in Names :
                (HandleJobCompleted(c, name) /\ name \in Tracked) =>
                    /\ jc'[c].pc = "destroy"
                    /\ name \notin DOMAIN idle' \cup DOMAIN busy'
                    /\ name \in DOMAIN busy =>
                          /\ jc'[c].id = busy[name]
                          /\ idle' = idle
                    /\ name \notin DOMAIN busy =>
                          /\ jc'[c].id = idle[name]
                          /\ busy' = busy
          /\ HandleJobCompleted_Destroy(c) =>
                destroyCalls'[jc[c].id] = destroyCalls[jc[c].id] + 1]_vars

\* A job-completed has found its runner in idle and DestroyRunner has been
\* called with that runner's id.
CompletedFallsBackToIdle_Witness ==
    \E c \in CThreads :
        /\ jc[c].pc = "ready"
        /\ jc[c].from = "idle"
        /\ jc[c].last = "destroyed"
        /\ jc[c].id = EngineId(jc[c].name)
        /\ destroyCalls[jc[c].id] = 1

\* C19 as stated: in every reachable state every name in idle or busy has its
\* backend resource outstanding (started for that name, not yet destroyed).
TrackedResourceOutstanding == \A n \in Tracked : n \in res.alive

\* C19, amended: the same, in every reachable state in which Scaler.Shutdown
\* has not yet called Engine.Shutdown.
TrackedResourceOutstandingUntilShutdown ==
    ~res.shut => \A n \in Tracked : n \in res.alive

\* Before any Shutdown: a runner is busy while another runner's resource has
\* been destroyed by its job-completed.
TrackedResourceOutstandingUntilShutdown_Witness ==
    /\ ~res.shut
    /\ DOMAIN busy # {}
    /\ \E n \in 1..nextName :
          n \notin res.alive /\ destroyCalls[EngineId(n)] = 1

=============================================================================
